---- MODULE Spec2Model ----
(***************************************************************************)
(* Model of the conformance validation engine of acp-validator-cli: the    *)
(* test outcome aggregator (TestStateManager, core/test-state) and the     *)
(* callers that drive it, the StreamReporter, the test categorizer, the    *)
(* schema conformance matcher toSatisfyApiSpec, and the totals and line    *)
(* item validations of the test suites.                                    *)
(*                                                                         *)
(* A CategoryStats object is mutable and is shared by reference between    *)
(* the manager's Map and every Map copy that getState() hands out, so the  *)
(* model keeps the objects in a heap and the Maps as name -> object id.    *)
(* TestResult objects are never mutated after construction (addResult      *)
(* replaces the array slot), so they are modelled as values.  The duration *)
(* and error fields of a TestResult are payload that no operation of the   *)
(* manager reads; they are left out, and so is the insertion order of the  *)
(* Map, which only the rendering of the categories reads.  A reporter      *)
(* drives the manager through the same four calls (onInit: reset;          *)
(* onTestCaseReady: onTestStart, addResult; onTestCaseResult: addResult;   *)
(* onTestRunEnd and onFinished: onComplete), so every reporter-driven run  *)
(* is a run of Spec.                                                       *)
(*                                                                         *)
(* The categorizer, the matcher and the validations are pure functions:    *)
(* each has a specification of its own whose initial states are the        *)
(* arguments and whose actions apply the function.  Strings are TLA+       *)
(* strings; case conversion, substring search and number formatting are    *)
(* computed character by character.                                        *)
(***************************************************************************)
EXTENDS Integers, Sequences, FiniteSets, TLC

\* ------------------------------------------------------------------ bounds

\* onTestStart increments total without limit; the model stops at MaxTotal.
MaxTotal == 2

\* The outcomes recorded since the last reset are remembered while they are of
\* one test and at most this many.
MaxRecorded == 2

\* ------------------------------------------------------------------ inputs

\* TestResult['status'] (reporters/types.ts).
Status == {"pass", "fail", "skip", "pending"}

Terminal == {"pass", "fail", "skip"}

\* The value of an absent optional field.
Undefined == "undefined"

\* Test names the callers use.
Names == {"a", "b"}

\* Values of TestResult.category the callers pass: absent, the categorizer's
\* default, and a string outside the fixed category set.
CategoryInputs == {Undefined, "Other", "custom"}

\* Mutant of Truthy: the `if (result.category)` guards are missing.
TruthyAlways(category) == TRUE

\* JavaScript truthiness of an optional string: undefined and '' are falsy.
Truthy(category) == category \notin {Undefined, ""}

\* The type TestCategory (core/categories.ts): the fixed category set.
TestCategory ==
    {"Session Creation & Address Handling", "Shipping Option Updates",
     "Order Completion", "Error Scenarios", "Idempotency", "Schema Validation",
     "Totals Validation", "Cancel Operations", "Get Operations",
     "Happy Path Flows", "Other"}

\* Keys the categories Map can hold.
CatKeys == {c \in CategoryInputs : Truthy(c)}

TestResult == [name : Names, status : Status, category : CategoryInputs]

\* The test cases the test runner reports to the StreamReporter: the name of
\* the test and the names of its parent suites, outermost first. Two test
\* cases of different suites have the same name.
TestCases ==
    {[name |-> "should create session", suites |-> <<"POST /checkout_sessions">>],
     [name |-> "returns 404", suites |-> <<>>],
     [name |-> "returns 404", suites |-> <<"GET /checkout_sessions/{id}">>]}

\* The runner has reported nothing about any test case.
NotStarted == [t \in TestCases |-> "idle"]

\* The values of testCase.result().state the runner reports: the states the
\* reporter maps to a terminal status and two it does not know.
RunnerStates ==
    {"passed", "pass", "failed", "fail", "skipped", "skip", "pending", "queued"}

\* Identities of CategoryStats objects: at most one per key reachable from the
\* manager's Map and one per key reachable from a retained snapshot.
ObjIds == 1 .. (2 * Cardinality(CatKeys))

VARIABLES
    results,     \* this.results: sequence of TestResult
    categories,  \* this.categories: Map, as a function key -> object id
    heap,        \* the CategoryStats objects, object id -> fields
    passed,      \* this.passed
    failed,      \* this.failed
    skipped,     \* this.skipped
    total,       \* this.total
    isComplete,  \* this.isComplete
    emitted,     \* the notifications emitted by the last call, in order
    call,        \* the last call made on the manager and its argument
    recorded,    \* name and status of the outcomes recorded since the last reset
    started,     \* the number of onTestStart calls since the last reset
    held,        \* a snapshot a caller of getState() keeps: <<>> or <<snapshot>>
    phase,       \* the test runner's position in each of its test cases
    input,       \* the arguments a pure function of the harness is applied to
    output       \* what the last application returned: <<>> or <<value>>

vars == <<results, categories, heap, passed, failed, skipped, total,
          isComplete, emitted, call, recorded, started, held, phase, input,
          output>>

\* ----------------------------------------------------------------- helpers

\* Array.prototype.findIndex(r => r.name === name): the first index (1-based)
\* whose element has the name, 0 where JavaScript returns -1.
FindIndex(list, name) ==
    IF \E i \in 1 .. Len(list) : list[i].name = name
    THEN CHOOSE i \in 1 .. Len(list) :
            /\ list[i].name = name
            /\ \A j \in 1 .. (i - 1) : list[j].name # name
    ELSE 0

\* Array.prototype.splice(index, 1).
Splice(list, index) ==
    [i \in 1 .. (Len(list) - 1) |-> IF i < index THEN list[i] ELSE list[i + 1]]

\* Mutant of DecIf: the old status is never subtracted.
DecIfNever(counter, status, which) == counter

\* Mutant of DecIf: the counter is decremented whatever the old status is.
DecIfAlways(counter, status, which) == counter - 1

\* `if (status === which) counter--`.
DecIf(counter, status, which) == IF status = which THEN counter - 1 ELSE counter

\* Mutant of IncIf: the counter is incremented whatever the status is.
IncIfAlways(counter, status, which) == counter + 1

\* `if (status === which) counter++`.
IncIf(counter, status, which) == IF status = which THEN counter + 1 ELSE counter

\* The object literal updateCategoryStats stores for a new key.
NewStats(category) ==
    [name |-> category, passed |-> 0, failed |-> 0, skipped |-> 0,
     total |-> 0, tests |-> <<>>]

\* A Map with no entries.
EmptyMap == [c \in {} |-> 0]

\* The id a newly created object gets: the lowest one not in use.
FreshId(h) == CHOOSE i \in ObjIds \ DOMAIN h : \A j \in ObjIds \ DOMAIN h : i <= j

\* The object ids a Map refers to.
Refs(map) == {map[c] : c \in DOMAIN map}

\* Objects no Map refers to any more are unreachable and released.
Collect(h, cats, keep) ==
    LET live == Refs(cats) \cup UNION {Refs(s.categories) : s \in {keep[i] : i \in DOMAIN keep}}
    IN  [i \in DOMAIN h \cap live |-> h[i]]

\* The manager's fields as one value, with the notifications emitted so far
\* by the running handler.
Manager ==
    [results |-> results, categories |-> categories, heap |-> heap,
     passed |-> passed, failed |-> failed, skipped |-> skipped,
     total |-> total, isComplete |-> isComplete, emitted |-> <<>>]

\* getState(): a new array with the same elements, a new Map with the same
\* entries (the same CategoryStats objects), and the counters by value.
getState(m) ==
    [results |-> m.results,
     categories |-> m.categories,
     passed |-> m.passed,
     failed |-> m.failed,
     skipped |-> m.skipped,
     total |-> m.total,
     isComplete |-> m.isComplete]

\* this.emit(type, payload): listeners run synchronously, in the call.
emit(m, event) == [m EXCEPT !.emitted = Append(@, event)]

\* Mutant of removeCategoryTest: the old entry stays in its bucket.
removeCategoryTestNoop(m, result) == m

\* removeCategoryTest(result)
removeCategoryTest(m, result) ==
    LET category == result.category
    IN  IF category \in DOMAIN m.categories
        THEN LET id == m.categories[category]
                 stats == m.heap[id]
                 testIndex == FindIndex(stats.tests, result.name)
                 tests1 == IF testIndex > 0 THEN Splice(stats.tests, testIndex)
                           ELSE stats.tests
             IN  [m EXCEPT !.heap[id] =
                    [name |-> stats.name,
                     tests |-> tests1,
                     total |-> stats.total - 1,
                     passed |-> DecIf(stats.passed, result.status, "pass"),
                     failed |-> DecIf(stats.failed, result.status, "fail"),
                     skipped |-> DecIf(stats.skipped, result.status, "skip")]]
        ELSE m

\* Mutant of updateCategoryStats: the bucket's status counters are not
\* incremented.
updateCategoryStatsTotalOnly(m, result) ==
    LET category == result.category
        has == category \in DOMAIN m.categories
        id == IF has THEN m.categories[category] ELSE FreshId(m.heap)
        cats1 == IF has THEN m.categories ELSE (category :> id) @@ m.categories
        heap1 == IF has THEN m.heap ELSE (id :> NewStats(category)) @@ m.heap
        stats == heap1[id]
    IN  [m EXCEPT
            !.categories = cats1,
            !.heap = [heap1 EXCEPT ![id] =
                        [name |-> stats.name,
                         tests |-> Append(stats.tests, result),
                         total |-> stats.total + 1,
                         passed |-> stats.passed,
                         failed |-> stats.failed,
                         skipped |-> stats.skipped]]]

\* updateCategoryStats(result)
updateCategoryStats(m, result) ==
    LET category == result.category
        has == category \in DOMAIN m.categories
        id == IF has THEN m.categories[category] ELSE FreshId(m.heap)
        cats1 == IF has THEN m.categories ELSE (category :> id) @@ m.categories
        heap1 == IF has THEN m.heap ELSE (id :> NewStats(category)) @@ m.heap
        stats == heap1[id]
    IN  [m EXCEPT
            !.categories = cats1,
            !.heap = [heap1 EXCEPT ![id] =
                        [name |-> stats.name,
                         tests |-> Append(stats.tests, result),
                         total |-> stats.total + 1,
                         passed |-> IncIf(stats.passed, result.status, "pass"),
                         failed |-> IncIf(stats.failed, result.status, "fail"),
                         skipped |-> IncIf(stats.skipped, result.status, "skip")]]]

\* Mutant of emitUpdate: the snapshot is the state the call started with.
emitUpdateStale(m) == emit(m, [type |-> "update", state |-> getState(Manager)])

\* The notification addResult ends with.
emitUpdate(m) == emit(m, [type |-> "update", state |-> getState(m)])

\* addResult(result)
addResult(m, result) ==
    LET existingIndex == FindIndex(m.results, result.name)
        exists == existingIndex > 0
        oldResult == m.results[existingIndex]
        \* lines 25-44: replace the stored result, or push a new one
        m1 == IF exists
              THEN LET d == [m EXCEPT
                                !.passed = DecIf(@, oldResult.status, "pass"),
                                !.failed = DecIf(@, oldResult.status, "fail"),
                                !.skipped = DecIf(@, oldResult.status, "skip"),
                                !.results[existingIndex] = result]
                   IN  IF Truthy(oldResult.category)
                       THEN removeCategoryTest(d, oldResult)
                       ELSE d
              ELSE [m EXCEPT !.results = Append(@, result)]
        \* lines 46-49
        m2 == [m1 EXCEPT
                !.passed = IncIf(@, result.status, "pass"),
                !.failed = IncIf(@, result.status, "fail"),
                !.skipped = IncIf(@, result.status, "skip")]
        \* lines 51-54
        m3 == IF Truthy(result.category) THEN updateCategoryStats(m2, result) ELSE m2
    IN  emitUpdate(m3)

\* Mutant of onTestStart: total is not incremented.
onTestStartNoCount(m, name) == emit(m, [type |-> "test-start", name |-> name])

\* onTestStart(name)
onTestStart(m, name) ==
    emit([m EXCEPT !.total = @ + 1], [type |-> "test-start", name |-> name])

\* Mutant of onComplete: the snapshot is taken before the flag is set.
onCompleteEarlySnapshot(m) ==
    emit([m EXCEPT !.isComplete = TRUE], [type |-> "complete", state |-> getState(m)])

\* onComplete()
onComplete(m) ==
    LET m1 == [m EXCEPT !.isComplete = TRUE]
    IN  emit(m1, [type |-> "complete", state |-> getState(m1)])

\* Mutant of reset: the category Map is not cleared.
resetKeepsCategories(m) ==
    emit([m EXCEPT
            !.results = <<>>,
            !.passed = 0,
            !.failed = 0,
            !.skipped = 0,
            !.total = 0,
            !.isComplete = FALSE],
         [type |-> "reset"])

\* reset()
reset(m) ==
    emit([m EXCEPT
            !.results = <<>>,
            !.categories = EmptyMap,
            !.passed = 0,
            !.failed = 0,
            !.skipped = 0,
            !.total = 0,
            !.isComplete = FALSE],
         [type |-> "reset"])

\* What a holder of snapshot s reads through it: the CategoryStats objects are
\* read from the heap as they are now.
View(s) ==
    [results |-> s.results,
     categories |-> [c \in DOMAIN s.categories |-> heap[s.categories[c]]],
     passed |-> s.passed,
     failed |-> s.failed,
     skipped |-> s.skipped,
     total |-> s.total,
     isComplete |-> s.isComplete]

\* The name and status of the outcomes passed to addResult since the last
\* reset, in call order, kept while they are all of one test and there are at
\* most MaxRecorded of them.
NoneRecorded == [exact |-> TRUE, outcomes |-> <<>>]

Record(rec, result) ==
    IF /\ rec.exact
       /\ Len(rec.outcomes) < MaxRecorded
       /\ \A i \in 1 .. Len(rec.outcomes) : rec.outcomes[i].name = result.name
    THEN [rec EXCEPT !.outcomes =
            Append(@, [name |-> result.name, status |-> result.status])]
    ELSE [exact |-> FALSE, outcomes |-> <<>>]

\* ----------------------------------------------------------------- actions

Init ==
    /\ results = <<>>
    /\ categories = EmptyMap
    /\ heap = EmptyMap
    /\ passed = 0
    /\ failed = 0
    /\ skipped = 0
    /\ total = 0
    /\ isComplete = FALSE
    /\ emitted = <<>>
    /\ call = [op |-> "new"]
    /\ recorded = NoneRecorded
    /\ started = 0
    /\ held = <<>>
    /\ phase = NotStarted
    /\ input = <<>>
    /\ output = <<>>

\* The manager's fields after a handler that left it as m.
Commit(m) ==
    /\ results' = m.results
    /\ categories' = m.categories
    /\ heap' = Collect(m.heap, m.categories, held')
    /\ passed' = m.passed
    /\ failed' = m.failed
    /\ skipped' = m.skipped
    /\ total' = m.total
    /\ isComplete' = m.isComplete
    /\ emitted' = m.emitted

\* A caller calls addResult(result).
AddResult(result) ==
    /\ UNCHANGED <<held, started, phase, input, output>>
    /\ Commit(addResult(Manager, result))
    /\ call' = [op |-> "addResult", result |-> result]
    /\ recorded' = Record(recorded, result)

\* A caller calls onTestStart(name).
OnTestStart(name) ==
    /\ total < MaxTotal
    /\ UNCHANGED <<held, recorded, phase, input, output>>
    /\ Commit(onTestStart(Manager, name))
    /\ call' = [op |-> "onTestStart", name |-> name]
    /\ started' = started + 1

\* A caller calls onComplete().
OnComplete ==
    /\ UNCHANGED <<held, recorded, started, phase, input, output>>
    /\ Commit(onComplete(Manager))
    /\ call' = [op |-> "onComplete"]

\* A caller calls reset().
Reset ==
    /\ UNCHANGED <<held, phase, input, output>>
    /\ Commit(reset(Manager))
    /\ call' = [op |-> "reset", cleared |-> Len(results)]
    /\ recorded' = NoneRecorded
    /\ started' = 0

\* A caller calls getState() and keeps the returned snapshot.
HoldState ==
    /\ held' = <<getState(Manager)>>
    /\ heap' = Collect(heap, categories, held')
    /\ UNCHANGED <<results, categories, passed, failed, skipped, total,
                   isComplete, emitted, call, recorded, started, phase, input,
                   output>>

Next ==
    \/ \E result \in TestResult : AddResult(result)
    \/ \E name \in Names : OnTestStart(name)
    \/ OnComplete
    \/ Reset

Spec == Init /\ [][Next]_vars

\* The calls of a run in which one test is recorded and corrected while a
\* caller keeps snapshots.
HeldResults == {r \in TestResult : r.name = "a" /\ r.category = "Other"}

NextHeld ==
    \/ \E result \in HeldResults : AddResult(result)
    \/ \E name \in Names : OnTestStart(name)
    \/ OnComplete
    \/ Reset
    \/ HoldState

SpecHeld == Init /\ [][NextHeld]_vars

\* ------------------------------------------------------------- categorizer

\* The letters String.prototype.toLowerCase changes in an ASCII string, and
\* what it changes them to, position by position.
UpperCaseLetters == "ABCDEFGHIJKLMNOPQRSTUVWXYZ"

LowerCaseLetters == "abcdefghijklmnopqrstuvwxyz"

\* The character at index i (1-based) of a string.
CharAt(s, i) == SubSeq(s, i, i)

\* toLowerCase of one character.
LowerOfChar(c) ==
    IF \E i \in 1 .. Len(UpperCaseLetters) : CharAt(UpperCaseLetters, i) = c
    THEN CharAt(LowerCaseLetters,
                CHOOSE i \in 1 .. Len(UpperCaseLetters) :
                    CharAt(UpperCaseLetters, i) = c)
    ELSE c

\* Mutant of toLowerCase: the inputs are matched as written.
toLowerCaseIdentity(s) == s

\* String.prototype.toLowerCase.
RECURSIVE toLowerCase(_)
toLowerCase(s) ==
    IF Len(s) = 0
    THEN ""
    ELSE LowerOfChar(CharAt(s, 1)) \o toLowerCase(SubSeq(s, 2, Len(s)))

\* String.prototype.includes: keyword occurs in s as a contiguous substring.
includes(s, keyword) ==
    \E i \in 1 .. (Len(s) - Len(keyword) + 1) :
        SubSeq(s, i, i + Len(keyword) - 1) = keyword

\* `suiteName || ''`.
OrEmpty(suiteName) == IF Truthy(suiteName) THEN suiteName ELSE ""

\* Mutant of SessionCreationRule: the suite path of the create endpoint is
\* not a keyword.
SessionCreationRuleNamesOnly(name, suite) ==
    \/ includes(name, "create session")
    \/ includes(name, "shipping address")
    \/ includes(name, "buyer information")
    \/ includes(suite, "session creation")

\* The conditions of the ten `if` statements of categorizeTest, on the
\* lower-cased name and suite.
SessionCreationRule(name, suite) ==
    \/ includes(name, "create session")
    \/ includes(name, "shipping address")
    \/ includes(name, "buyer information")
    \/ includes(suite, "post /checkout_sessions")
    \/ includes(suite, "session creation")

ShippingOptionRule(name, suite) ==
    \/ includes(name, "shipping option")
    \/ includes(name, "fulfillment")
    \/ includes(name, "select shipping")
    \/ (includes(suite, "update") /\ includes(name, "shipping"))

OrderCompletionRule(name, suite) ==
    \/ includes(name, "complete")
    \/ includes(name, "payment")
    \/ includes(name, "order_id")
    \/ includes(suite, "complete")

ErrorScenariosRule(name, suite) ==
    \/ includes(name, "error")
    \/ includes(name, "missing")
    \/ includes(name, "invalid")
    \/ includes(name, "out_of_stock")
    \/ includes(name, "payment_declined")
    \/ includes(suite, "error")

IdempotencyRule(name, suite) ==
    \/ includes(name, "idempotency")
    \/ includes(name, "duplicate")
    \/ includes(name, "same idempotency-key")
    \/ includes(suite, "idempotency")

SchemaValidationRule(name, suite) ==
    \/ includes(name, "schema")
    \/ includes(name, "openapi")
    \/ includes(name, "spec")
    \/ includes(suite, "schema validation")

TotalsValidationRule(name, suite) ==
    \/ includes(name, "total")
    \/ includes(name, "calculation")
    \/ includes(name, "formula")
    \/ includes(suite, "totals")

CancelOperationsRule(name, suite) ==
    \/ includes(name, "cancel")
    \/ includes(suite, "cancel")

GetOperationsRule(name, suite) ==
    \/ (includes(name, "get") /\ includes(name, "session"))
    \/ includes(name, "retrieve")
    \/ includes(suite, "get /checkout_sessions")

HappyPathRule(name, suite) ==
    \/ includes(name, "full flow")
    \/ includes(name, "complete flow")
    \/ includes(name, "happy path")
    \/ includes(suite, "happy path")

\* Mutant of Default: an uncategorised test is filed under the last rule.
DefaultHappyPath == "Happy Path Flows"

\* `return 'Other'`, the statement after the last rule.
Default == "Other"

\* categorizeTest(testName, suiteName) (core/categories.ts).
categorizeTest(testName, suiteName) ==
    LET name == toLowerCase(testName)
        suite == toLowerCase(OrEmpty(suiteName))
    IN  IF SessionCreationRule(name, suite)
            THEN "Session Creation & Address Handling"
        ELSE IF ShippingOptionRule(name, suite) THEN "Shipping Option Updates"
        ELSE IF OrderCompletionRule(name, suite) THEN "Order Completion"
        ELSE IF ErrorScenariosRule(name, suite) THEN "Error Scenarios"
        ELSE IF IdempotencyRule(name, suite) THEN "Idempotency"
        ELSE IF SchemaValidationRule(name, suite) THEN "Schema Validation"
        ELSE IF TotalsValidationRule(name, suite) THEN "Totals Validation"
        ELSE IF CancelOperationsRule(name, suite) THEN "Cancel Operations"
        ELSE IF GetOperationsRule(name, suite) THEN "Get Operations"
        ELSE IF HappyPathRule(name, suite) THEN "Happy Path Flows"
        ELSE Default

\* ---------------------------------------------------------- StreamReporter

\* Array.prototype.join(' > ') on a non-empty list of suite names.
RECURSIVE Join(_)
Join(parts) ==
    IF Len(parts) = 1
    THEN parts[1]
    ELSE parts[1] \o " > " \o Join(Tail(parts))

\* StreamReporter.getSuiteName: the parent suites' names, outermost first,
\* joined; undefined for a test case outside every suite.
getSuiteName(testCase) ==
    IF Len(testCase.suites) > 0 THEN Join(testCase.suites) ELSE Undefined

\* StreamReporter.mapStatus.
mapStatus(state) ==
    CASE state \in {"passed", "pass"} -> "pass"
      [] state \in {"failed", "fail"} -> "fail"
      [] state \in {"skipped", "skip"} -> "skip"
      [] OTHER -> "pending"

\* StreamReporter.onInit on a manager m (testCounts is never written).
onInit(m) == reset(m)

\* Mutant of onTestCaseReady: the result is stored without counting the test.
onTestCaseReadyUncounted(m, testCase) ==
    addResult(m,
              [name |-> testCase.name,
               status |-> "pending",
               category |-> categorizeTest(testCase.name,
                                           getSuiteName(testCase))])

\* StreamReporter.onTestCaseReady on a manager m.
onTestCaseReady(m, testCase) ==
    addResult(onTestStart(m, testCase.name),
              [name |-> testCase.name,
               status |-> "pending",
               category |-> categorizeTest(testCase.name,
                                           getSuiteName(testCase))])

\* StreamReporter.onTestCaseResult on a manager m, where state is
\* testCase.result().state.
onTestCaseResult(m, testCase, state) ==
    addResult(m,
              [name |-> testCase.name,
               status |-> mapStatus(state),
               category |-> categorizeTest(testCase.name,
                                           getSuiteName(testCase))])

\* StreamReporter.onTestRunEnd on a manager m.
onTestRunEnd(m) == onComplete(m)

\* The runner starts a run.
OnInit ==
    /\ UNCHANGED <<held, input, output>>
    /\ Commit(onInit(Manager))
    /\ call' = [op |-> "onInit"]
    /\ recorded' = NoneRecorded
    /\ started' = 0
    /\ phase' = NotStarted

\* The runner is about to run a test case of the run.
OnTestCaseReady(testCase) ==
    /\ phase[testCase] = "idle"
    /\ UNCHANGED <<held, input, output>>
    /\ Commit(onTestCaseReady(Manager, testCase))
    /\ call' = [op |-> "onTestCaseReady", name |-> testCase.name]
    /\ recorded' = Record(recorded, [name |-> testCase.name, status |-> "pending"])
    /\ started' = started + 1
    /\ phase' = [phase EXCEPT ![testCase] = "ready"]

\* The runner has finished a test case it had announced.
OnTestCaseResult(testCase, state) ==
    /\ phase[testCase] = "ready"
    /\ UNCHANGED <<held, input, output, started>>
    /\ Commit(onTestCaseResult(Manager, testCase, state))
    /\ call' = [op |-> "onTestCaseResult", name |-> testCase.name,
                state |-> state]
    /\ recorded' = Record(recorded, [name |-> testCase.name,
                                     status |-> mapStatus(state)])
    /\ phase' = [phase EXCEPT ![testCase] = "done"]

\* The runner has finished every test case it had announced.
OnTestRunEnd ==
    /\ \A testCase \in TestCases : phase[testCase] # "ready"
    /\ UNCHANGED <<held, input, output, recorded, started, phase>>
    /\ Commit(onTestRunEnd(Manager))
    /\ call' = [op |-> "onTestRunEnd"]

NextReporter ==
    \/ OnInit
    \/ \E testCase \in TestCases : OnTestCaseReady(testCase)
    \/ \E testCase \in TestCases, state \in RunnerStates :
            OnTestCaseResult(testCase, state)
    \/ OnTestRunEnd

SpecReporter == Init /\ [][NextReporter]_vars

\* ------------------------------------------------ schema conformance checker

\* An optional value is <<>> when it is undefined and <<v>> when it is v.
Absent == <<>>

\* JavaScript truthiness of an optional string: undefined and '' are falsy.
TruthyString(opt) == opt # Absent /\ opt[1] # ""

\* JavaScript truthiness of an optional number: undefined and 0 are falsy.
TruthyNumber(opt) == opt # Absent /\ opt[1] # 0

\* A template literal's rendering of an optional string.
Show(opt) == IF opt = Absent THEN "undefined" ELSE opt[1]

DecimalDigits == "0123456789"

\* Number.prototype.toString of a non-negative integer.
RECURSIVE toString(_)
toString(n) ==
    IF n < Len(DecimalDigits)
    THEN CharAt(DecimalDigits, n + 1)
    ELSE toString(n \div Len(DecimalDigits))
            \o CharAt(DecimalDigits, (n % Len(DecimalDigits)) + 1)

\* toUpperCase of one character.
UpperOfChar(c) ==
    IF \E i \in 1 .. Len(LowerCaseLetters) : CharAt(LowerCaseLetters, i) = c
    THEN CharAt(UpperCaseLetters,
                CHOOSE i \in 1 .. Len(LowerCaseLetters) :
                    CharAt(LowerCaseLetters, i) = c)
    ELSE c

\* String.prototype.toUpperCase.
RECURSIVE toUpperCase(_)
toUpperCase(s) ==
    IF Len(s) = 0
    THEN ""
    ELSE UpperOfChar(CharAt(s, 1)) \o toUpperCase(SubSeq(s, 2, Len(s)))

\* Array.prototype.join(', ').
RECURSIVE JoinComma(_)
JoinComma(parts) ==
    IF Len(parts) = 0 THEN ""
    ELSE IF Len(parts) = 1 THEN parts[1]
    ELSE parts[1] \o ", " \o JoinComma(Tail(parts))

\* A property name that is an array index: decimal digits only.
IsIndex(key) ==
    /\ Len(key) > 0
    /\ \A i \in 1 .. Len(key) : includes(DecimalDigits, CharAt(key, i))

\* The number an index property name denotes.
RECURSIVE IndexOf(_)
IndexOf(key) ==
    IF Len(key) = 0
    THEN 0
    ELSE IndexOf(SubSeq(key, 1, Len(key) - 1)) * Len(DecimalDigits)
            + (CHOOSE d \in 0 .. (Len(DecimalDigits) - 1) :
                    CharAt(DecimalDigits, d + 1) = CharAt(key, Len(key)))

\* The positions of `entries` in the order Object.keys lists their keys:
\* index keys in ascending numeric order, then the others as written.
RECURSIVE KeyOrder(_, _)
KeyOrder(entries, left) ==
    IF left = {}
    THEN <<>>
    ELSE LET Before(i, j) ==
                 \/ IsIndex(entries[i].key) /\ ~IsIndex(entries[j].key)
                 \/ /\ IsIndex(entries[i].key) /\ IsIndex(entries[j].key)
                    /\ IndexOf(entries[i].key) < IndexOf(entries[j].key)
                 \/ /\ ~IsIndex(entries[i].key) /\ ~IsIndex(entries[j].key)
                    /\ i < j
             first == CHOOSE i \in left : \A j \in left \ {i} : Before(i, j)
         IN  <<first>> \o KeyOrder(entries, left \ {first})

\* Mutant of ObjectKeys: no key is listed.
ObjectKeysNone(responses) == <<>>

\* Object.keys(operation.responses || {}) of a responses object written as
\* the list of its entries.
ObjectKeys(responses) ==
    LET order == KeyOrder(responses, DOMAIN responses)
    IN  [i \in 1 .. Len(order) |-> responses[order[i]].key]

\* A response object of the interface description whose application/json
\* media type has a schema requiring the given properties.
JsonResponse(required) ==
    [content |-> <<[type |-> "application/json",
                    schema |-> <<[required |-> required]>>]>>]

\* A response object without content.
EmptyResponse == [content |-> <<>>]

\* The dereferenced interface description (validator.resolveRefs()): path key ->
\* method key -> responses, in the order the document lists them.
schema ==
    [paths |->
        ("/checkout_sessions" :>
            ("post" :>
                [responses |->
                    <<[key |-> "201", value |-> JsonResponse({"id", "status"})],
                      [key |-> "400", value |-> JsonResponse({"type", "code"})],
                      [key |-> "default", value |-> EmptyResponse]>>]))
        @@
        ("/checkout_sessions/{checkout_session_id}" :>
            (("get" :>
                [responses |->
                    <<[key |-> "404", value |-> JsonResponse({"type", "code"})],
                      [key |-> "200", value |-> JsonResponse({"id", "status"})]>>])
             @@
             ("post" :>
                [responses |->
                    <<[key |-> "200", value |-> JsonResponse({"id", "status"})],
                      [key |-> "405", value |-> EmptyResponse]>>])))]

\* String.prototype.startsWith.
StartsWith(s, prefix) ==
    Len(prefix) <= Len(s) /\ SubSeq(s, 1, Len(prefix)) = prefix

\* Mutant of PathItemOf: a path key that begins the request path matches it.
PathItemOfPrefix(path) ==
    LET keys == {k \in DOMAIN schema.paths : StartsWith(path, k)}
    IN  IF keys = {} THEN Absent ELSE <<schema.paths[CHOOSE k \in keys : TRUE]>>

\* `(schema.paths as any)?.[path]`.
PathItemOf(path) ==
    IF path \in DOMAIN schema.paths THEN <<schema.paths[path]>> ELSE Absent

\* `(pathItem as any)[method]`.
OperationOf(pathItem, method) ==
    IF method \in DOMAIN pathItem THEN <<pathItem[method]>> ELSE Absent

\* `operation.responses?.[key]`.
ResponseOf(operation, key) ==
    LET hits == {i \in DOMAIN operation.responses :
                    operation.responses[i].key = key}
    IN  IF hits = {}
        THEN Absent
        ELSE <<operation.responses[CHOOSE i \in hits : TRUE].value>>

\* `responseSpec.content?.['application/json']?.schema`.
JsonSchemaOf(responseSpec) ==
    LET hits == {i \in DOMAIN responseSpec.content :
                    responseSpec.content[i].type = "application/json"}
    IN  IF hits = {}
        THEN Absent
        ELSE responseSpec.content[CHOOSE i \in hits : TRUE].schema

\* Mutant of ajvValidate: every body is accepted.
ajvValidateAlways(jsonSchema, body) == TRUE

\* `ajv.compile(mediaType.schema)(body)` for a schema of an object with
\* required properties; a body is the set of the properties it has.
ajvValidate(jsonSchema, body) ==
    body # Absent /\ jsonSchema.required \subseteq body[1]

\* What a call of the matcher produces: a returned {pass, message} (with
\* whether the body was validated, and the violations found) or an exception.
Returned(pass, message, validated, errors) ==
    [threw |-> FALSE, pass |-> pass, message |-> message,
     validated |-> validated, errors |-> errors]

Thrown(error) ==
    [threw |-> TRUE, pass |-> FALSE, message |-> error, validated |-> FALSE,
     errors |-> {}]

\* toSatisfyApiSpec(received) with this.isNot = isNot.
toSatisfyApiSpec(received, isNot) ==
    LET status == IF TruthyNumber(received.status)
                  THEN received.status
                  ELSE received.statusCode
        body == received.body
        req == received.req
    IN
    IF req = Absent
    THEN Returned(FALSE, "Response object missing request information",
                  FALSE, {})
    ELSE
    LET method == IF req[1].method = Absent
                  THEN Absent
                  ELSE <<toLowerCase(req[1].method[1])>>
        path == req[1].path
    IN
    IF ~TruthyString(method) \/ ~TruthyString(path)
    THEN Returned(FALSE,
                  "Cannot determine method (" \o Show(method) \o ") or path ("
                    \o Show(path) \o ") from request",
                  FALSE, {})
    ELSE
    LET pathItem == PathItemOf(path[1]) IN
    IF pathItem = Absent
    THEN Returned(FALSE, "Path " \o path[1] \o " not found in OpenAPI spec",
                  FALSE, {})
    ELSE
    LET operation == OperationOf(pathItem[1], method[1]) IN
    IF operation = Absent
    THEN Returned(FALSE,
                  "Method " \o toUpperCase(method[1])
                    \o " not defined for path " \o path[1],
                  FALSE, {})
    ELSE
    IF status = Absent
    THEN Thrown("TypeError: Cannot read properties of undefined (reading 'toString')")
    ELSE
    LET responseSpec == ResponseOf(operation[1], toString(status[1])) IN
    IF responseSpec = Absent
    THEN Returned(FALSE,
                  "Status " \o toString(status[1]) \o " not defined for "
                    \o toUpperCase(method[1]) \o " " \o path[1]
                    \o ". Valid statuses: "
                    \o JoinComma(ObjectKeys(operation[1].responses)),
                  FALSE, {})
    ELSE
    LET jsonSchema == JsonSchemaOf(responseSpec[1]) IN
    IF jsonSchema # Absent /\ ~ajvValidate(jsonSchema[1], body)
    THEN Returned(FALSE,
                  "Response body does not match schema for "
                    \o toUpperCase(method[1]) \o " " \o path[1] \o " ("
                    \o toString(status[1]) \o "):",
                  TRUE,
                  IF body = Absent
                  THEN {"type"}
                  ELSE jsonSchema[1].required \ body[1])
    ELSE Returned(TRUE,
                  toUpperCase(method[1]) \o " " \o path[1] \o " response ("
                    \o toString(status[1]) \o ") "
                    \o (IF isNot THEN "does not satisfy" ELSE "satisfies")
                    \o " OpenAPI spec",
                  jsonSchema # Absent, {})

\* The responses the matcher is applied to: status and statusCode, body and
\* req of a supertest response, each possibly missing.
Received ==
    [status : {Absent, <<0>>, <<200>>, <<201>>, <<405>>, <<418>>},
     statusCode : {Absent, <<201>>},
     body : {Absent, <<{}>>, <<{"id"}>>, <<{"id", "status"}>>},
     req : {Absent} \cup
           {<<r>> : r \in
               [method : {Absent, <<"">>, <<"POST">>, <<"post">>, <<"GET">>,
                          <<"DELETE">>},
                path : {Absent, <<"">>, <<"/checkout_sessions">>,
                        <<"/checkout_sessions/cs_123">>,
                        <<"/checkout_sessions/{checkout_session_id}">>,
                        <<"/nonexistent_endpoint">>}]}]

\* The aggregator and the reporter as constructed, before any call.
Constructed ==
    /\ results = <<>>
    /\ categories = EmptyMap
    /\ heap = EmptyMap
    /\ passed = 0
    /\ failed = 0
    /\ skipped = 0
    /\ total = 0
    /\ isComplete = FALSE
    /\ emitted = <<>>
    /\ call = [op |-> "new"]
    /\ recorded = NoneRecorded
    /\ started = 0
    /\ held = <<>>
    /\ phase = NotStarted

aggregatorVars ==
    <<results, categories, heap, passed, failed, skipped, total, isComplete,
      emitted, call, recorded, started, held, phase>>

InitChecker ==
    /\ Constructed
    /\ input \in [received : Received, isNot : BOOLEAN]
    /\ output = <<>>

\* A test applies expect(received).toSatisfyApiSpec().
ToSatisfyApiSpec ==
    /\ output' = <<toSatisfyApiSpec(input.received, input.isNot)>>
    /\ UNCHANGED <<input, aggregatorVars>>

NextChecker == ToSatisfyApiSpec

SpecChecker == InitChecker /\ [][NextChecker]_vars

\* ------------------------------------------------- categorizer, applied

\* A test name is written with at most this many of the fragments below.
MaxFragments == 2

\* categorizeTest is called at most this many times on the same arguments.
MaxCalls == 2

\* Pieces of test names as test authors write them, each with the same text
\* in lower case.
NameFragments ==
    {[text |-> "Create Session", lower |-> "create session"],
     [text |-> "Shipping", lower |-> "shipping"],
     [text |-> " Option", lower |-> " option"],
     [text |-> "COMPLETE", lower |-> "complete"],
     [text |-> "ERROR", lower |-> "error"],
     [text |-> "error", lower |-> "error"],
     [text |-> "Duplicate", lower |-> "duplicate"],
     [text |-> "OpenAPI", lower |-> "openapi"],
     [text |-> "Total", lower |-> "total"],
     [text |-> "Cancel", lower |-> "cancel"],
     [text |-> "Retrieve", lower |-> "retrieve"],
     [text |-> "Happy Path", lower |-> "happy path"],
     [text |-> " GET ", lower |-> " get "],
     [text |-> "session", lower |-> "session"]}

\* Suite names: absent, empty, and three suite paths, each with the same text
\* in lower case (an absent suite is matched as the empty string).
SuiteNames ==
    {[text |-> Undefined, lower |-> ""],
     [text |-> "", lower |-> ""],
     [text |-> "Checkout > Update", lower |-> "checkout > update"],
     [text |-> "Error Handling", lower |-> "error handling"],
     [text |-> "GET /checkout_sessions/{id}",
      lower |-> "get /checkout_sessions/{id}"]}

\* The text a list of fragments spells, as written and in lower case.
RECURSIVE Spelled(_)
Spelled(fragments) ==
    IF Len(fragments) = 0
    THEN ""
    ELSE Head(fragments).text \o Spelled(Tail(fragments))

RECURSIVE Lowered(_)
Lowered(fragments) ==
    IF Len(fragments) = 0
    THEN ""
    ELSE Head(fragments).lower \o Lowered(Tail(fragments))

\* The arguments categorizeTest is applied to.
CategorizerInputs ==
    {[name |-> Spelled(fragments), suite |-> suiteName.text,
      lowerName |-> Lowered(fragments), lowerSuite |-> suiteName.lower] :
        fragments \in UNION {[1 .. n -> NameFragments] : n \in 0 .. MaxFragments},
        suiteName \in SuiteNames}

InitCategorizer ==
    /\ Constructed
    /\ input \in CategorizerInputs
    /\ output = <<>>

\* A caller categorizes the test; output lists what each call returned.
CategorizeTest ==
    /\ Len(output) < MaxCalls
    /\ output' = Append(output, categorizeTest(input.name, input.suite))
    /\ UNCHANGED <<input, aggregatorVars>>

NextCategorizer == CategorizeTest

SpecCategorizer == InitCategorizer /\ [][NextCategorizer]_vars

\* Pieces of the test names of the conformance test files, as written and in
\* lower case.
TestNameFragments ==
    {[text |-> "should ", lower |-> "should "],
     [text |-> "complete", lower |-> "complete"],
     [text |-> "Complete Flow", lower |-> "complete flow"],
     [text |-> "payment_declined", lower |-> "payment_declined"],
     [text |-> "Payment", lower |-> "payment"],
     [text |-> " error", lower |-> " error"],
     [text |-> " cancel", lower |-> " cancel"],
     [text |-> "duplicate Idempotency-Key", lower |-> "duplicate idempotency-key"],
     [text |-> " 404", lower |-> " 404"],
     [text |-> "totals", lower |-> "totals"]}

\* Suite paths of the conformance test files as getSuiteName joins them: the
\* create, update, complete and cancel endpoint suites, the idempotency suite
\* of the complete endpoint, and three suites that do not name a POST
\* endpoint.
TestSuitePaths ==
    {[text |-> "POST /checkout_sessions > Session Creation - Happy Path",
      lower |-> "post /checkout_sessions > session creation - happy path"],
     [text |-> "POST /checkout_sessions/{id} (update) > Error Handling",
      lower |-> "post /checkout_sessions/{id} (update) > error handling"],
     [text |-> "POST /checkout_sessions/{id}/complete > Error Handling",
      lower |-> "post /checkout_sessions/{id}/complete > error handling"],
     [text |-> "POST /checkout_sessions/{id}/cancel > Cancel Session - Happy Path",
      lower |-> "post /checkout_sessions/{id}/cancel > cancel session - happy path"],
     [text |-> "Idempotency Tests - Production Certification > POST /checkout_sessions/{id}/complete - Idempotency",
      lower |-> "idempotency tests - production certification > post /checkout_sessions/{id}/complete - idempotency"],
     [text |-> "Error Scenario Tests - Production Certification > Payment Declined Errors",
      lower |-> "error scenario tests - production certification > payment declined errors"],
     [text |-> "GET /checkout_sessions/{id} > Error Handling",
      lower |-> "get /checkout_sessions/{id} > error handling"],
     [text |-> "Totals Calculation Validation",
      lower |-> "totals calculation validation"]}

\* The arguments categorizeTest is applied to for the tests of these suites.
SuiteTestInputs ==
    {[name |-> Spelled(fragments), suite |-> suitePath.text,
      lowerName |-> Lowered(fragments), lowerSuite |-> suitePath.lower] :
        fragments \in UNION {[1 .. n -> TestNameFragments] : n \in 0 .. MaxFragments},
        suitePath \in TestSuitePaths}

InitSuiteTests ==
    /\ Constructed
    /\ input \in SuiteTestInputs
    /\ output = <<>>

SpecSuiteTests == InitSuiteTests /\ [][NextCategorizer]_vars

\* ------------------------------------------------------- totals validation

\* Array.prototype.find(t => t.type === type): the index (1-based) of the
\* first entry of the type, 0 where JavaScript returns undefined.
FindType(totals, type) ==
    IF \E i \in 1 .. Len(totals) : totals[i].type = type
    THEN CHOOSE i \in 1 .. Len(totals) :
            /\ totals[i].type = type
            /\ \A j \in 1 .. (i - 1) : totals[j].type # type
    ELSE 0

\* `totals.find(...)?.amount`: undefined without an entry of the type.
AmountOf(totals, type) ==
    IF FindType(totals, type) = 0
    THEN Absent
    ELSE <<totals[FindType(totals, type)].amount>>

\* Mutant of getTotalAmount: the fee entry is not read.
getTotalAmountWithoutFee(totals, type) ==
    IF type = "fee" \/ ~TruthyNumber(AmountOf(totals, type))
    THEN 0
    ELSE AmountOf(totals, type)[1]

\* getTotalAmount(totals, type): `totals.find(...)?.amount || 0`.
getTotalAmount(totals, type) ==
    IF TruthyNumber(AmountOf(totals, type))
    THEN AmountOf(totals, type)[1]
    ELSE 0

\* expect(actual).toBe(expected): passes when the two numbers are the same;
\* the failure reports both.
toBe(actual, expected) ==
    [pass |-> actual = expected, expected |-> <<expected>>,
     actual |-> <<actual>>]

\* validateTotalFormula(totals).
validateTotalFormula(totals) ==
    LET subtotal == getTotalAmount(totals, "subtotal")
        discount == getTotalAmount(totals, "discount")
        fulfillment == getTotalAmount(totals, "fulfillment")
        tax == getTotalAmount(totals, "tax")
        fee == getTotalAmount(totals, "fee")
        total_ == getTotalAmount(totals, "total")
    IN  toBe(total_, subtotal - discount + fulfillment + tax + fee)

\* Mutant of RequiredTotalTypes: a fee entry is required too.
RequiredTotalTypesWithFee ==
    <<"items_base_amount", "items_discount", "subtotal", "discount",
      "fulfillment", "tax", "fee", "total">>

\* The array validateRequiredTotalTypes iterates over.
RequiredTotalTypes ==
    <<"items_base_amount", "items_discount", "subtotal", "discount",
      "fulfillment", "tax", "total">>

\* validateRequiredTotalTypes(totals): the forEach stops at the first type
\* whose expect(total?.amount).toBeDefined() fails.
validateRequiredTotalTypes(totals) ==
    LET undefinedAt == {i \in DOMAIN RequiredTotalTypes :
                            AmountOf(totals, RequiredTotalTypes[i]) = Absent}
    IN  IF undefinedAt = {}
        THEN [pass |-> TRUE, expected |-> <<>>, actual |-> <<>>]
        ELSE [pass |-> FALSE,
              expected |-> <<RequiredTotalTypes[
                                CHOOSE i \in undefinedAt :
                                    \A j \in undefinedAt : i <= j]>>,
              actual |-> <<>>]

\* One entry of a totals array, or none.
Entry(type, amount) ==
    IF amount = Absent THEN <<>> ELSE <<[type |-> type, amount |-> amount[1]]>>

\* The totals arrays of the responses under test: per type an entry or none,
\* in the order of the README's example, and possibly a second total entry.
TotalsInputs ==
    {Entry("items_base_amount", c.items_base_amount)
        \o Entry("items_discount", c.items_discount)
        \o Entry("subtotal", c.subtotal)
        \o Entry("discount", c.discount)
        \o Entry("fulfillment", c.fulfillment)
        \o Entry("tax", c.tax)
        \o Entry("fee", c.fee)
        \o Entry("total", c.total)
        \o Entry("total", c.again) :
        c \in [items_base_amount : {Absent, <<1100>>},
               items_discount : {Absent, <<0>>},
               subtotal : {Absent, <<0>>, <<1100>>},
               discount : {Absent, <<0>>, <<110>>},
               fulfillment : {Absent, <<0>>},
               tax : {Absent, <<0>>, <<110>>},
               fee : {Absent, <<110>>},
               total : {Absent, <<0>>, <<990>>, <<1100>>, <<1200>>, <<1210>>},
               again : {Absent, <<1200>>}]}

InitTotals ==
    /\ Constructed
    /\ input \in TotalsInputs
    /\ output = <<>>

\* A function has been applied to the totals array in this run.
Applied(fn) == \E i \in DOMAIN output : output[i].fn = fn

\* A test applies validateTotalFormula to the totals of a response.
ValidateTotalFormula ==
    /\ ~Applied("validateTotalFormula")
    /\ output' = Append(output, [fn |-> "validateTotalFormula",
                                 result |-> validateTotalFormula(input)])
    /\ UNCHANGED <<input, aggregatorVars>>

\* A test applies validateRequiredTotalTypes to the totals of a response.
ValidateRequiredTotalTypes ==
    /\ ~Applied("validateRequiredTotalTypes")
    /\ output' = Append(output, [fn |-> "validateRequiredTotalTypes",
                                 result |-> validateRequiredTotalTypes(input)])
    /\ UNCHANGED <<input, aggregatorVars>>

NextTotals ==
    \/ ValidateTotalFormula
    \/ ValidateRequiredTotalTypes

SpecTotals == InitTotals /\ [][NextTotals]_vars

\* ----------------------------------------------------- line item assertions

\* A response under test has at most this many line items.
MaxItems == 2

\* Mutant of ArithmeticCallback: the total of a line item is not compared.
ArithmeticCallbackSubtotalOnly(lineItem) ==
    IF ~toBe(lineItem.subtotal, lineItem.base_amount - lineItem.discount).pass
    THEN "subtotal"
    ELSE "none"

\* The two calculation assertions of a forEach callback on one line item:
\* the expectation that fails first, or none.
ArithmeticCallback(lineItem) ==
    IF ~toBe(lineItem.subtotal, lineItem.base_amount - lineItem.discount).pass
    THEN "subtotal"
    ELSE IF ~toBe(lineItem.total, lineItem.subtotal + lineItem.tax).pass
    THEN "total"
    ELSE "none"

\* The forEach callback of the create and get tests: structure assertions,
\* then the calculation assertions.
StructureCallback(lineItem) ==
    IF lineItem.id = Absent THEN "id"
    ELSE IF lineItem.item = Absent THEN "item"
    ELSE IF ~(lineItem.base_amount >= 0) THEN "base_amount"
    ELSE IF ~(lineItem.discount >= 0) THEN "discount"
    ELSE IF ~(lineItem.subtotal >= 0) THEN "subtotal >= 0"
    ELSE IF ~(lineItem.tax >= 0) THEN "tax"
    ELSE IF ~(lineItem.total >= 0) THEN "total >= 0"
    ELSE ArithmeticCallback(lineItem)

\* A test that threw at an expectation, and one that ran to its end.
TestFailed(expectation, at) ==
    [pass |-> FALSE, failed |-> expectation, at |-> at]

TestPassed == [pass |-> TRUE, failed |-> "none", at |-> 0]

\* body.line_items.forEach(callback), given what the callback does on each
\* line item: the first failing expectation throws.
forEach(failures) ==
    LET failing == {i \in DOMAIN failures : failures[i] # "none"}
        first == CHOOSE i \in failing : \A j \in failing : i <= j
    IN  IF failing = {}
        THEN TestPassed
        ELSE TestFailed(failures[first], first)

\* 'should return valid line items with proper calculations' (create).
CreateLineItemsTest(response) ==
    IF ~toBe(response.status, 201).pass
    THEN TestFailed("status", 0)
    ELSE forEach([i \in DOMAIN response.body.line_items |->
                    StructureCallback(response.body.line_items[i])])

\* 'should return valid line items structure' (get).
GetLineItemsTest(response) ==
    IF ~toBe(response.status, 200).pass
    THEN TestFailed("status", 0)
    ELSE forEach([i \in DOMAIN response.body.line_items |->
                    StructureCallback(response.body.line_items[i])])

\* 'should preserve all line items and totals from session' (complete), where
\* created is the number of line items of the create response.
CompleteLineItemsTest(response, created) ==
    IF ~toBe(response.status, 200).pass
    THEN TestFailed("status", 0)
    ELSE IF ~toBe(Len(response.body.line_items), created).pass
    THEN TestFailed("length", 0)
    ELSE forEach([i \in DOMAIN response.body.line_items |->
                    ArithmeticCallback(response.body.line_items[i])])

\* Line items of responses: every combination of the amounts below, one whose
\* calculations hold with a negative discount, and one without id.
LineItemInputs ==
    [id : {<<"li_1">>}, item : {<<"item_1">>}, base_amount : {100},
     discount : {0, 10}, subtotal : {90, 100}, tax : {0, 10},
     total : {100, 110}]
    \cup
    {[id |-> <<"li_2">>, item |-> <<"item_2">>, base_amount |-> 100,
      discount |-> -10, subtotal |-> 110, tax |-> 0, total |-> 110],
     [id |-> Absent, item |-> <<"item_3">>, base_amount |-> 100,
      discount |-> 0, subtotal |-> 100, tax |-> 10, total |-> 110]}

\* The responses the three tests look at, and the number of line items the
\* create response had in the complete test.
LineItemTestInputs ==
    [response :
        [status : {200, 201},
         body : [line_items :
                    UNION {[1 .. n -> LineItemInputs] : n \in 0 .. MaxItems},
                 totals : {<<[type |-> "total", amount |-> 0]>>,
                           <<[type |-> "total", amount |-> 110]>>}]],
     created : {1, 2}]

InitLineItems ==
    /\ Constructed
    /\ input \in LineItemTestInputs
    /\ output = <<>>

\* The create test runs on the response.
RunCreateLineItemsTest ==
    /\ output = <<>>
    /\ output' = <<[test |-> "create",
                    result |-> CreateLineItemsTest(input.response)]>>
    /\ UNCHANGED <<input, aggregatorVars>>

\* The get test runs on the response.
RunGetLineItemsTest ==
    /\ output = <<>>
    /\ output' = <<[test |-> "get",
                    result |-> GetLineItemsTest(input.response)]>>
    /\ UNCHANGED <<input, aggregatorVars>>

\* The complete test runs on the response.
RunCompleteLineItemsTest ==
    /\ output = <<>>
    /\ output' = <<[test |-> "complete",
                    result |-> CompleteLineItemsTest(input.response,
                                                     input.created)]>>
    /\ UNCHANGED <<input, aggregatorVars>>

NextLineItems ==
    \/ RunCreateLineItemsTest
    \/ RunGetLineItemsTest
    \/ RunCompleteLineItemsTest

SpecLineItems == InitLineItems /\ [][NextLineItems]_vars

\* ------------------------------------------------- conformance test helpers

\* The statuses of a checkout session (src/types/acp.ts, as used by the tests).
SessionStatus ==
    {"not_ready_for_payment", "ready_for_payment", "completed", "canceled"}

\* The session ids and total amounts a target answers with.
SessionIds == {"cs_1", "cs_2"}
Amounts == {100, 200}

\* The values randomUUID returns: the n-th value drawn in a run.
randomUUID(n) == "uuid-" \o toString(n)

\* generateACPHeaders: the eight request headers; idempotencyKey and requestId
\* default to fresh UUIDs (random.idempotencyKey, random.requestId) when the
\* options do not carry them.
generateACPHeaders(options, random) ==
    ("Authorization" :> ("Bearer " \o options.apiKey))
    @@ ("Accept-Language" :> "en-US")
    @@ ("User-Agent" :> "ACP-Test-CLI/0.1.0")
    @@ ("Idempotency-Key" :>
            (IF "idempotencyKey" \in DOMAIN options
             THEN options.idempotencyKey ELSE random.idempotencyKey))
    @@ ("Request-Id" :>
            (IF "requestId" \in DOMAIN options
             THEN options.requestId ELSE random.requestId))
    @@ ("Content-Type" :> "application/json")
    @@ ("Timestamp" :> random.timestamp)
    @@ ("API-Version" :> "2025-09-12")

\* The header map `{}`.
NoHeaders == [h \in {} |-> ""]

\* request.set(fields): every field of the map is set, replacing a header of
\* the same name; no header is removed.
set(headers, fields) == fields @@ headers

\* `customHeaders || {}`: an omitted argument is the empty map.
OrNoHeaders(customHeaders) ==
    IF customHeaders = Absent THEN NoHeaders ELSE customHeaders[1]

\* The text of a session id in a URL: `${sessionId}` of undefined is
\* 'undefined'.
IdText(sessionId) == IF sessionId = Absent THEN Undefined ELSE sessionId[1]

\* createSession: POST /checkout_sessions with the generated headers, then
\* the custom headers.
createSession(requestBody, customHeaders, random) ==
    [method |-> "POST",
     path |-> "/checkout_sessions",
     headers |-> set(generateACPHeaders([apiKey |-> "test_key_123"], random),
                     OrNoHeaders(customHeaders)),
     body |-> requestBody]

\* updateSession: POST /checkout_sessions/{id} with the generated headers.
updateSession(sessionId, requestBody, random) ==
    [method |-> "POST",
     path |-> "/checkout_sessions/" \o IdText(sessionId),
     headers |-> generateACPHeaders([apiKey |-> "test_key_123"], random),
     body |-> requestBody]

\* completeSession: POST /checkout_sessions/{id}/complete with the generated
\* headers, then the custom headers.
completeSession(sessionId, requestBody, customHeaders, random) ==
    [method |-> "POST",
     path |-> "/checkout_sessions/" \o IdText(sessionId) \o "/complete",
     headers |-> set(generateACPHeaders([apiKey |-> "test_key_123"], random),
                     OrNoHeaders(customHeaders)),
     body |-> requestBody]

\* cancelSession: POST /checkout_sessions/{id}/cancel with the generated
\* headers and an empty body.
cancelSession(sessionId, random) ==
    [method |-> "POST",
     path |-> "/checkout_sessions/" \o IdText(sessionId) \o "/cancel",
     headers |-> generateACPHeaders([apiKey |-> "test_key_123"], random),
     body |-> "{}"]

\* buildCreateSessionRequest: items default to the single product; buyer and
\* address are sent only when given.
buildCreateSessionRequest(items, buyer, address) ==
    [items |-> IF items = Absent THEN "SINGLE_PRODUCT" ELSE items[1],
     buyer |-> buyer,
     fulfillment_address |-> address]

\* buildUpdateSessionRequest: only the given fields are sent.
buildUpdateSessionRequest(buyer, address, fulfillmentOptionId) ==
    [buyer |-> buyer,
     fulfillment_address |-> address,
     fulfillment_option_id |-> fulfillmentOptionId]

\* buildCompleteSessionRequest(): the minimal payment data.
buildCompleteSessionRequest == [payment_data |-> "MINIMAL"]

\* extractFirstFulfillmentOptionId: the id of the first option, undefined
\* when there is none.
extractFirstFulfillmentOptionId(response) ==
    IF response.fulfillment_options # Absent
       /\ Len(response.fulfillment_options[1]) > 0
    THEN <<response.fulfillment_options[1][1]>>
    ELSE Absent

\* ------------------------------------------------------- conformance tests

\* One helper call of a test: the local variable that receives the response,
\* the helper, its request body and its custom headers.
HelperCall(local, helper, requestBody, customHeaders) ==
    [local |-> local, helper |-> helper, requestBody |-> requestBody,
     customHeaders |-> customHeaders]

\* The custom header map { 'Idempotency-Key': key }.
WithKey(key) == <<("Idempotency-Key" :> key)>>

\* The response a local variable of the running test holds.
Held(out, local) ==
    LET at == {i \in DOMAIN out.trace : out.trace[i].local = local}
    IN out.trace[CHOOSE i \in at : TRUE]

\* extractSessionId(createResponse) of the running test.
sessionIdOf(out) == Held(out, "createResponse").id

\* 'should reject double completion (already completed)'
DoubleCompletionCalls(out) ==
    << HelperCall("createResponse", "createSession",
          buildCreateSessionRequest(<<"SINGLE_PRODUCT">>, <<"BASIC">>,
                                    <<"US_RESIDENTIAL">>), Absent),
       HelperCall("firstComplete", "completeSession",
          buildCompleteSessionRequest, Absent),
       HelperCall("response", "completeSession",
          buildCompleteSessionRequest, Absent) >>

\* The double completion test without its last expectation.
DoubleCompletionExpectFirstOnly(local, out, response) ==
    CASE local = "firstComplete" -> response.status = 200
      [] OTHER -> TRUE

DoubleCompletionExpect(local, out, response) ==
    CASE local = "firstComplete" -> response.status = 200
      [] local = "response" -> response.status \in {400, 409}
      [] OTHER -> TRUE

\* 'should reject canceling already-canceled session'
CancelCanceledCalls(out) ==
    << HelperCall("createResponse", "createSession",
          buildCreateSessionRequest(<<"SINGLE_PRODUCT">>, Absent, Absent),
          Absent),
       HelperCall("firstCancel", "cancelSession", "{}", Absent),
       HelperCall("response", "cancelSession", "{}", Absent) >>

CancelCanceledExpect(local, out, response) ==
    CASE local = "firstCancel" ->
            /\ response.status = 200
            /\ response.sessionStatus = <<"canceled">>
      [] local = "response" -> response.status \in {400, 405, 409}
      [] OTHER -> TRUE

\* 'should reject canceling completed session'
CancelCompletedCalls(out) ==
    << HelperCall("createResponse", "createSession",
          buildCreateSessionRequest(<<"SINGLE_PRODUCT">>, <<"BASIC">>,
                                    <<"US_RESIDENTIAL">>), Absent),
       HelperCall("completeResponse", "completeSession",
          buildCompleteSessionRequest, Absent),
       HelperCall("response", "cancelSession", "{}", Absent) >>

CancelCompletedExpect(local, out, response) ==
    CASE local = "completeResponse" ->
            /\ response.status = 200
            /\ response.sessionStatus = <<"completed">>
      [] local = "response" -> response.status \in {400, 405, 409}
      [] OTHER -> TRUE

\* 'should cancel not_ready_for_payment session'
CancelNotReadyCalls(out) ==
    << HelperCall("createResponse", "createSession",
          buildCreateSessionRequest(<<"SINGLE_PRODUCT">>, Absent, Absent),
          Absent),
       HelperCall("response", "cancelSession", "{}", Absent) >>

CancelNotReadyExpect(local, out, response) ==
    CASE local = "createResponse" ->
            response.sessionStatus = <<"not_ready_for_payment">>
      [] local = "response" ->
            /\ response.status = 200
            /\ response.id = sessionIdOf(out)
            /\ response.sessionStatus = <<"canceled">>
            /\ response.currency # Absent
      [] OTHER -> TRUE

\* 'should cancel ready_for_payment session'
CancelReadyCalls(out) ==
    << HelperCall("createResponse", "createSession",
          buildCreateSessionRequest(<<"SINGLE_PRODUCT">>, <<"BASIC">>,
                                    <<"US_RESIDENTIAL">>), Absent),
       HelperCall("response", "cancelSession", "{}", Absent) >>

CancelReadyExpect(local, out, response) ==
    CASE local = "createResponse" ->
            response.sessionStatus \in
                {<<"ready_for_payment">>, <<"not_ready_for_payment">>}
      [] local = "response" ->
            /\ response.status = 200
            /\ response.sessionStatus = <<"canceled">>
            /\ response.id = sessionIdOf(out)
      [] OTHER -> TRUE

\* 'should handle state transitions correctly throughout flow': the shipping
\* update is sent only when the address update returned an option.
StateTransitionsCalls(out) ==
    << HelperCall("createResponse", "createSession",
          buildCreateSessionRequest(<<"SINGLE_PRODUCT">>, Absent, Absent),
          Absent),
       HelperCall("updateBuyerResponse", "updateSession",
          buildUpdateSessionRequest(<<"WITH_PHONE">>, Absent, Absent), Absent),
       HelperCall("updateAddressResponse", "updateSession",
          buildUpdateSessionRequest(Absent, <<"US_RESIDENTIAL">>, Absent),
          Absent) >>
    \o (IF out.fulfillmentOptionId # Absent
        THEN << HelperCall("updateShippingResponse", "updateSession",
                   buildUpdateSessionRequest(Absent, Absent,
                                             out.fulfillmentOptionId),
                   Absent) >>
        ELSE << >>)
    \o << HelperCall("completeResponse", "completeSession",
             buildCompleteSessionRequest, Absent) >>

\* The state transition flow without the expectations on the completion.
StateTransitionsExpectNoCompletion(local, out, response) ==
    CASE local = "createResponse" ->
            /\ response.status = 201
            /\ response.sessionStatus = <<"not_ready_for_payment">>
      [] local = "updateBuyerResponse" ->
            /\ response.status = 200
            /\ response.sessionStatus = <<"not_ready_for_payment">>
      [] local \in {"updateAddressResponse", "updateShippingResponse"} ->
            /\ response.status = 200
            /\ response.sessionStatus \in
                   {<<"not_ready_for_payment">>, <<"ready_for_payment">>}
      [] OTHER -> TRUE

StateTransitionsExpect(local, out, response) ==
    CASE local = "createResponse" ->
            /\ response.status = 201
            /\ response.sessionStatus = <<"not_ready_for_payment">>
      [] local = "updateBuyerResponse" ->
            /\ response.status = 200
            /\ response.sessionStatus = <<"not_ready_for_payment">>
      [] local \in {"updateAddressResponse", "updateShippingResponse"} ->
            /\ response.status = 200
            /\ response.sessionStatus \in
                   {<<"not_ready_for_payment">>, <<"ready_for_payment">>}
      [] local = "completeResponse" ->
            /\ response.status = 200
            /\ response.sessionStatus = <<"completed">>
      [] OTHER -> TRUE

\* 'should select fulfillment option and transition to ready_for_payment'
SelectFulfillmentCalls(out) ==
    << HelperCall("createResponse", "createSession",
          buildCreateSessionRequest(<<"SINGLE_PRODUCT">>, <<"BASIC">>,
                                    <<"US_RESIDENTIAL">>), Absent),
       HelperCall("response", "updateSession",
          buildUpdateSessionRequest(Absent, Absent, out.fulfillmentOptionId),
          Absent) >>

SelectFulfillmentExpect(local, out, response) ==
    CASE local = "createResponse" -> out.fulfillmentOptionId # Absent
      [] local = "response" ->
            /\ response.status = 200
            /\ response.fulfillment_option_id = out.fulfillmentOptionId
            /\ response.sessionStatus \in
                   {<<"ready_for_payment">>, <<"not_ready_for_payment">>}
      [] OTHER -> TRUE

\* The local variable whose response extractFirstFulfillmentOptionId reads.
OptionSource(test) ==
    CASE test = "state transitions" -> "updateAddressResponse"
      [] test = "select fulfillment option" -> "createResponse"
      [] OTHER -> "none"

\* Idempotency tests: 'should return same result for duplicate
\* Idempotency-Key with same parameters' on create.
IdempotentCreateCalls(out) ==
    << HelperCall("response1", "createSession",
          buildCreateSessionRequest(<<"SINGLE_PRODUCT">>, Absent, Absent),
          WithKey("test-idem")),
       HelperCall("response2", "createSession",
          buildCreateSessionRequest(<<"SINGLE_PRODUCT">>, Absent, Absent),
          WithKey("test-idem")) >>

\* The idempotent create test without the comparison of the two ids.
IdempotentCreateExpectNoId(local, out, response) ==
    CASE local = "response1" ->
            /\ response.status = 201
            /\ response.id # Absent
      [] local = "response2" ->
            /\ response.status = 201
            /\ response.idempotencyKey = "test-idem"
      [] OTHER -> TRUE

IdempotentCreateExpect(local, out, response) ==
    CASE local = "response1" ->
            /\ response.status = 201
            /\ response.id # Absent
      [] local = "response2" ->
            /\ response.status = 201
            /\ response.id = Held(out, "response1").id
            /\ response.idempotencyKey = "test-idem"
      [] OTHER -> TRUE

\* The same test on complete.
IdempotentCompleteCalls(out) ==
    << HelperCall("createResponse", "createSession",
          buildCreateSessionRequest(<<"SINGLE_PRODUCT">>, Absent,
                                    <<"US_RESIDENTIAL">>), Absent),
       HelperCall("response1", "completeSession",
          buildCompleteSessionRequest, WithKey("test-complete-idem")),
       HelperCall("response2", "completeSession",
          buildCompleteSessionRequest, WithKey("test-complete-idem")) >>

IdempotentCompleteExpect(local, out, response) ==
    CASE local = "response1" ->
            /\ response.status = 200
            /\ response.sessionStatus = <<"completed">>
      [] local = "response2" ->
            /\ response.status = 200
            /\ response.id = Held(out, "response1").id
            /\ response.sessionStatus = <<"completed">>
            /\ response.idempotencyKey = "test-complete-idem"
      [] OTHER -> TRUE

\* IDEMPOTENCY_CONFLICT_SCENARIOS: the items of the two requests (the
\* scenarios differ in items, quantities and addresses).
ConflictScenarios ==
    { [scenario |-> "different items",
       request1 |-> buildCreateSessionRequest(<<"SINGLE_PRODUCT">>, Absent,
                                              Absent),
       request2 |-> buildCreateSessionRequest(<<"TWO_PRODUCTS">>, Absent,
                                              Absent)],
      [scenario |-> "different quantities",
       request1 |-> buildCreateSessionRequest(<<"quantity 1">>, Absent,
                                              Absent),
       request2 |-> buildCreateSessionRequest(<<"quantity 2">>, Absent,
                                              Absent)],
      [scenario |-> "different addresses",
       request1 |-> buildCreateSessionRequest(<<"SINGLE_PRODUCT">>, Absent,
                                              <<"US_RESIDENTIAL">>),
       request2 |-> buildCreateSessionRequest(<<"SINGLE_PRODUCT">>, Absent,
                                              <<"US_WITH_APT">>)] }

\* 'should return 409 for ${scenario} with same Idempotency-Key'
IdempotencyConflictCalls(scenario) ==
    << HelperCall("response1", "createSession", scenario.request1,
                  WithKey("conflict-test")),
       HelperCall("response2", "createSession", scenario.request2,
                  WithKey("conflict-test")) >>

IdempotencyConflictExpect(local, out, response) ==
    CASE local = "response1" -> response.status = 201
      [] local = "response2" ->
            /\ response.status = 409
            /\ response.code = <<"idempotency_conflict">>
      [] OTHER -> TRUE

\* 'should handle requests without Idempotency-Key': the custom header map
\* is `{}`.
WithoutIdempotencyKeyCalls(out) ==
    << HelperCall("response", "createSession",
          buildCreateSessionRequest(<<"SINGLE_PRODUCT">>, Absent, Absent),
          <<NoHeaders>>) >>

WithoutIdempotencyKeyExpect(local, out, response) ==
    /\ response.status = 201
    /\ response.id # Absent

\* The tests of the run.
HarnessTests ==
    {"double completion", "cancel canceled", "cancel completed",
     "cancel not_ready_for_payment", "cancel ready_for_payment",
     "state transitions", "select fulfillment option",
     "idempotent create", "idempotent complete",
     "without Idempotency-Key"}

HarnessInputs ==
    {[test |-> t, scenario |-> Absent] : t \in HarnessTests}
    \cup {[test |-> "idempotency conflict", scenario |-> <<s>>] :
              s \in ConflictScenarios}

\* The helper calls of a test, given what the test has received so far.
Calls(test, out) ==
    CASE test.test = "double completion" -> DoubleCompletionCalls(out)
      [] test.test = "cancel canceled" -> CancelCanceledCalls(out)
      [] test.test = "cancel completed" -> CancelCompletedCalls(out)
      [] test.test = "cancel not_ready_for_payment" -> CancelNotReadyCalls(out)
      [] test.test = "cancel ready_for_payment" -> CancelReadyCalls(out)
      [] test.test = "state transitions" -> StateTransitionsCalls(out)
      [] test.test = "select fulfillment option" -> SelectFulfillmentCalls(out)
      [] test.test = "idempotent create" -> IdempotentCreateCalls(out)
      [] test.test = "idempotent complete" -> IdempotentCompleteCalls(out)
      [] test.test = "idempotency conflict" ->
            IdempotencyConflictCalls(test.scenario[1])
      [] test.test = "without Idempotency-Key" ->
            WithoutIdempotencyKeyCalls(out)

\* The expectations a test checks on the response a local variable received.
Expect(test, local, out, response) ==
    CASE test.test = "double completion" ->
            DoubleCompletionExpect(local, out, response)
      [] test.test = "cancel canceled" ->
            CancelCanceledExpect(local, out, response)
      [] test.test = "cancel completed" ->
            CancelCompletedExpect(local, out, response)
      [] test.test = "cancel not_ready_for_payment" ->
            CancelNotReadyExpect(local, out, response)
      [] test.test = "cancel ready_for_payment" ->
            CancelReadyExpect(local, out, response)
      [] test.test = "state transitions" ->
            StateTransitionsExpect(local, out, response)
      [] test.test = "select fulfillment option" ->
            SelectFulfillmentExpect(local, out, response)
      [] test.test = "idempotent create" ->
            IdempotentCreateExpect(local, out, response)
      [] test.test = "idempotent complete" ->
            IdempotentCompleteExpect(local, out, response)
      [] test.test = "idempotency conflict" ->
            IdempotencyConflictExpect(local, out, response)
      [] test.test = "without Idempotency-Key" ->
            WithoutIdempotencyKeyExpect(local, out, response)

\* The request a helper call sends; the two UUIDs of its headers are the
\* next two values of the generator.
RequestOf(helperCall, out) ==
    LET n == 2 * Len(out.trace)
        random == [idempotencyKey |-> randomUUID(n + 1),
                   requestId |-> randomUUID(n + 2),
                   timestamp |-> "2025-09-25T10:30:00Z"]
    IN CASE helperCall.helper = "createSession" ->
              createSession(helperCall.requestBody, helperCall.customHeaders, random)
         [] helperCall.helper = "updateSession" ->
              updateSession(sessionIdOf(out), helperCall.requestBody, random)
         [] helperCall.helper = "completeSession" ->
              completeSession(sessionIdOf(out), helperCall.requestBody,
                              helperCall.customHeaders, random)
         [] helperCall.helper = "cancelSession" ->
              cancelSession(sessionIdOf(out), random)

\* The Idempotency-Key header of a request, when it carries one.
KeyOf(request) ==
    IF "Idempotency-Key" \in DOMAIN request.headers
    THEN <<request.headers["Idempotency-Key"]>>
    ELSE Absent

\* The answers of a target to a request: a session (200 or 201) or an error
\* (405 or 409) with a message code; the idempotency-key response header
\* echoes the request's key or carries a key of the server.
Responses(request) ==
    LET echo == {"srv-key"} \cup
                (IF KeyOf(request) = Absent THEN {} ELSE {KeyOf(request)[1]})
    IN [status : {200, 201},
        idempotencyKey : echo,
        id : {<<i>> : i \in SessionIds},
        sessionStatus : {<<s>> : s \in SessionStatus},
        total : {<<a>> : a \in Amounts},
        currency : {Absent, <<"usd">>},
        fulfillment_options : {<<<< >>>>, <<<<"opt_1">>>>},
        fulfillment_option_id : {Absent, <<"opt_1">>},
        code : {Absent}]
       \cup
       [status : {400, 405, 409},
        idempotencyKey : echo,
        id : {Absent},
        sessionStatus : {Absent},
        total : {Absent},
        currency : {Absent},
        fulfillment_options : {Absent},
        fulfillment_option_id : {Absent},
        code : {<<"idempotency_conflict">>, <<"invalid">>}]

\* What a test keeps of an exchange: the local variable, the request sent
\* and the fields of the response the tests read again.
Exchange(helperCall, request, response) ==
    [local |-> helperCall.local,
     helper |-> helperCall.helper,
     path |-> request.path,
     key |-> KeyOf(request),
     body |-> request.body,
     status |-> response.status,
     id |-> response.id,
     sessionStatus |-> response.sessionStatus,
     total |-> response.total,
     code |-> response.code]

\* A test before its first call.
Started ==
    [verdict |-> "running", fulfillmentOptionId |-> Absent, trace |-> << >>]

\* The test after the response to its next call: the response is kept, the
\* expectations on it are checked (a failed expectation ends the test), and
\* the test passes after the last call.
Receive(test, out, helperCall, request, response) ==
    LET kept == [out EXCEPT
                    !.trace = Append(@, Exchange(helperCall, request, response)),
                    !.fulfillmentOptionId =
                        IF helperCall.local = OptionSource(test.test)
                        THEN extractFirstFulfillmentOptionId(response)
                        ELSE @]
    IN [kept EXCEPT !.verdict =
            IF ~Expect(test, helperCall.local, kept, response) THEN "failed"
            ELSE IF Len(kept.trace) = Len(Calls(test, kept)) THEN "passed"
            ELSE "running"]

InitHarness ==
    /\ Constructed
    /\ input \in HarnessInputs
    /\ output = Started

\* The running test calls a helper and the target answers.
Call(helper) ==
    /\ output.verdict = "running"
    /\ LET calls == Calls(input, output)
           n == Len(output.trace) + 1
       IN /\ n <= Len(calls)
          /\ calls[n].helper = helper
          /\ \E response \in Responses(RequestOf(calls[n], output)) :
                output' = Receive(input, output, calls[n],
                                  RequestOf(calls[n], output), response)
    /\ UNCHANGED <<input, aggregatorVars>>

CreateSession == Call("createSession")

UpdateSession == Call("updateSession")

CompleteSession == Call("completeSession")

CancelSession == Call("cancelSession")

NextHarness ==
    \/ CreateSession
    \/ UpdateSession
    \/ CompleteSession
    \/ CancelSession

SpecHarness == InitHarness /\ [][NextHarness]_vars

\* ---------------------------------------------------- error scenario tests

\* messages.find((msg) => msg.type === 'error' && msg.code === code): the
\* first such message, undefined when there is none.
findErrorMessage(messages, code) ==
    LET found == {i \in DOMAIN messages :
                     /\ messages[i].type = "error"
                     /\ messages[i].code = <<code>>}
    IN  IF found = {}
        THEN Absent
        ELSE <<messages[CHOOSE i \in found : \A j \in found : i <= j]>>

\* validateErrorMessage(message, expectedCode): type and code match, the
\* content type is plain or markdown and the content is truthy.
validateErrorMessage(message, expectedCode) ==
    /\ message.type = "error"
    /\ message.code = <<expectedCode>>
    /\ message.content_type \in {<<"plain">>, <<"markdown">>}
    /\ TruthyString(message.content)

\* expect(value).toContain(part) and expect(value).toMatch(/part/) on an
\* optional string: undefined fails the expectation.
Contains(value, part) == value # Absent /\ includes(value[1], part)

\* What an error scenario test reports: the message it validated, if any,
\* and whether the test passed.
Checked(fn, message, pass) == [fn |-> fn, validated |-> message, pass |-> pass]

\* 'should handle invalid field and return error'
InvalidFieldTest(response, expectedParam) ==
    LET invalidError == findErrorMessage(response.messages, "invalid")
    IN  IF response.status \notin {200, 201, 400}
        THEN Checked("invalid field", Absent, FALSE)
        ELSE IF invalidError = Absent
        THEN Checked("invalid field", Absent, TRUE)
        ELSE Checked("invalid field", invalidError,
                 /\ validateErrorMessage(invalidError[1], "invalid")
                 /\ (expectedParam # "" =>
                        Contains(invalidError[1].param, expectedParam)))

\* 'should handle scenario where item becomes unavailable'
OutOfStockTest(response) ==
    LET outOfStockError == findErrorMessage(response.messages, "out_of_stock")
    IN  IF response.status \notin {200, 201} \/ response.line_items = 0
        THEN Checked("out of stock", Absent, FALSE)
        ELSE IF outOfStockError = Absent
        THEN Checked("out of stock", Absent, TRUE)
        ELSE Checked("out of stock", outOfStockError,
                 /\ validateErrorMessage(outOfStockError[1], "out_of_stock")
                 /\ Contains(outOfStockError[1].param, "line_items"))

\* 'should validate payment_declined appears in complete response'
PaymentDeclinedTest(response) ==
    LET declinedError ==
            findErrorMessage(response.messages, "payment_declined")
        content == IF declinedError[1].content = Absent
                   THEN Absent
                   ELSE <<toLowerCase(declinedError[1].content[1])>>
    IN  IF response.status \notin {200, 201, 400}
        THEN Checked("payment declined", Absent, FALSE)
        ELSE IF declinedError = Absent
        THEN Checked("payment declined", Absent, TRUE)
        ELSE Checked("payment declined", declinedError,
                 /\ validateErrorMessage(declinedError[1], "payment_declined")
                 /\ \/ Contains(content, "payment")
                    \/ Contains(content, "declined")
                    \/ Contains(content, "card"))

\* The messages of a response.
Messages ==
    [type : {"error", "info"},
     code : {<<"invalid">>, <<"out_of_stock">>, <<"payment_declined">>},
     content_type : {Absent, <<"plain">>, <<"markdown">>, <<"html">>},
     content : {Absent, <<"">>, <<"Card declined">>, <<"Sold out">>},
     param : {Absent, <<"$.line_items[0]">>, <<"line_items[0]">>,
              <<"$.country">>, <<"country">>}]

\* The responses the error scenario tests look at, with the expectedParam of
\* the invalid field scenario.
ErrorScenarioInputs ==
    [status : {200, 400, 404},
     line_items : {0, 1},
     messages : {<< >>} \cup {<<m>> : m \in Messages},
     expectedParam : {"country", "quantity"}]

InitErrorScenarios ==
    /\ Constructed
    /\ input \in ErrorScenarioInputs
    /\ output = << >>

RunInvalidFieldTest ==
    /\ ~Applied("invalid field")
    /\ output' = Append(output, InvalidFieldTest(input, input.expectedParam))
    /\ UNCHANGED <<input, aggregatorVars>>

RunOutOfStockTest ==
    /\ ~Applied("out of stock")
    /\ output' = Append(output, OutOfStockTest(input))
    /\ UNCHANGED <<input, aggregatorVars>>

RunPaymentDeclinedTest ==
    /\ ~Applied("payment declined")
    /\ output' = Append(output, PaymentDeclinedTest(input))
    /\ UNCHANGED <<input, aggregatorVars>>

NextErrorScenarios ==
    \/ RunInvalidFieldTest
    \/ RunOutOfStockTest
    \/ RunPaymentDeclinedTest

SpecErrorScenarios == InitErrorScenarios /\ [][NextErrorScenarios]_vars

\* -------------------------------------------------------------- run command

\* The largest number of failed tests a run reports.
MaxFailed == 2

\* loadConfig(configPath): explorer.load / explorer.search returns a result
\* with a config, returns nothing usable, or throws; a throw is logged with
\* console.error and undefined is returned.
loadConfig(explorer) ==
    CASE explorer = "config" ->
            [config |-> <<[checkoutUrl |-> "http://file-url.com",
                           apiKey |-> "file_key"]>>,
             errors |-> 0]
      [] explorer = "empty" -> [config |-> Absent, errors |-> 0]
      [] explorer = "throws" -> [config |-> Absent, errors |-> 1]

\* process.exit(code): the process ends with the code.
exit(process, code) ==
    [process EXCEPT !.pc = "exited", !.exitCode = <<code>>]

\* console.error(...): one more error report.
error(process) == [process EXCEPT !.errors = @ + 1]

\* `options.x || config?.x`.
Merged(option, config, field) ==
    IF TruthyString(option) THEN option
    ELSE IF config = Absent THEN Absent ELSE <<config[1][field]>>

\* The CLI options of a run and the runCommand that is run: the one with the
\* Ink screen (part_008) or the plain one (commands/run.ts).
RunInputs ==
    [config : {Absent, <<"acp.config.yaml">>},
     checkoutUrl : {Absent, <<"http://cli-url.com">>},
     apiKey : {Absent, <<"cli_key">>},
     screen : BOOLEAN]

\* The process when runCommand is entered.
Entered ==
    [pc |-> "loadConfig", config |-> Absent, errors |-> 0, prompts |-> 0,
     vitest |-> "none", closed |-> FALSE, failedTests |-> Absent,
     exitCode |-> Absent]

InitRun ==
    /\ Constructed
    /\ input \in RunInputs
    /\ output = Entered

\* Lines 15-30: the config is loaded from the --config path or searched; with
\* a path and no config the command reports and exits.
LoadConfig ==
    /\ output.pc = "loadConfig"
    /\ \E explorer \in {"config", "empty", "throws"} :
          LET loaded == loadConfig(explorer)
              process == [output EXCEPT !.config = loaded.config,
                                        !.errors = @ + loaded.errors]
          IN  output' =
                IF TruthyString(input.config) /\ loaded.config = Absent
                THEN exit(error(process), 1)
                ELSE [process EXCEPT !.pc = "prompt"]
    /\ UNCHANGED <<input, aggregatorVars>>

\* Lines 33-59: the required fields are merged and the missing ones are
\* prompted for.
PromptMissing ==
    /\ output.pc = "prompt"
    /\ LET checkoutUrl ==
               Merged(input.checkoutUrl, output.config, "checkoutUrl")
           apiKey == Merged(input.apiKey, output.config, "apiKey")
           asked == (IF TruthyString(checkoutUrl) THEN 0 ELSE 1)
                    + (IF TruthyString(apiKey) THEN 0 ELSE 1)
       IN  output' = [output EXCEPT !.prompts = @ + asked,
                                    !.pc = "startVitest"]
    /\ UNCHANGED <<input, aggregatorVars>>

\* Lines 117-150: startVitest returns the runner, returns nothing (reported,
\* exit 1) or throws (caught at 169-172: reported, exit 1).
StartVitest ==
    /\ output.pc = "startVitest"
    /\ \E returned \in {"vitest", "undefined", "throws"} :
          output' =
            IF returned = "vitest"
            THEN [output EXCEPT !.vitest = "started", !.pc = "close"]
            ELSE exit(error(output), 1)
    /\ UNCHANGED <<input, aggregatorVars>>

\* Line 153: vitest.close() resolves when the tests have completed, with the
\* count of failed tests in vitest.state, or throws.
Close ==
    /\ output.pc = "close"
    /\ \/ \E failedTests \in 0 .. MaxFailed :
             output' = [output EXCEPT
                           !.closed = TRUE,
                           !.failedTests = <<failedTests>>,
                           !.pc = IF input.screen THEN "waitUntilExit"
                                  ELSE "exit"]
       \/ output' = exit(error(output), 1)
    /\ UNCHANGED <<input, aggregatorVars>>

\* Line 156: waitUntilExit() of the Ink screen resolves or rejects.
WaitUntilExit ==
    /\ output.pc = "waitUntilExit"
    /\ \/ output' = [output EXCEPT !.pc = "exit"]
       \/ output' = exit(error(output), 1)
    /\ UNCHANGED <<input, aggregatorVars>>

\* Lines 159-168: the exit code is 0 when no test failed, 1 otherwise.
Exit ==
    /\ output.pc = "exit"
    /\ output' = exit(output, IF output.failedTests = <<0>> THEN 0 ELSE 1)
    /\ UNCHANGED <<input, aggregatorVars>>

NextRun ==
    \/ LoadConfig
    \/ PromptMissing
    \/ StartVitest
    \/ Close
    \/ WaitUntilExit
    \/ Exit

SpecRun == InitRun /\ [][NextRun]_vars

\* ------------------------------------------------------------ YAML reporter

\* Longest task list of a file or of a suite drawn as an input.
MaxTasks == 2

\* A task that is not a suite, with `task.result?.state`: Absent where the
\* task has no result.
Test(state) == [type |-> "test", state |-> state, tasks |-> <<>>]

\* A suite task and its tasks.
Suite(tasks) == [type |-> "suite", state |-> Absent, tasks |-> tasks]

\* Mutant of countPassedTaskTests: the tests of nested suites are not
\* counted.
RECURSIVE countPassedTaskTestsFlat(_)
countPassedTaskTestsFlat(tasks) ==
    IF tasks = <<>>
    THEN 0
    ELSE countPassedTaskTestsFlat(SubSeq(tasks, 1, Len(tasks) - 1))
            + (IF tasks[Len(tasks)].type = "suite"
               THEN 0
               ELSE IF tasks[Len(tasks)].state = <<"pass">> THEN 1 ELSE 0)

\* Lines 103-110: tasks.reduce from 0, a suite adds the count of its tasks,
\* any other task adds one.
RECURSIVE countTaskTests(_)
countTaskTests(tasks) ==
    IF tasks = <<>>
    THEN 0
    ELSE countTaskTests(SubSeq(tasks, 1, Len(tasks) - 1))
            + (IF tasks[Len(tasks)].type = "suite"
               THEN countTaskTests(tasks[Len(tasks)].tasks)
               ELSE 1)

\* Lines 112-119: as countTaskTests, a task other than a suite adds one only
\* where `task.result?.state === 'pass'`.
RECURSIVE countPassedTaskTests(_)
countPassedTaskTests(tasks) ==
    IF tasks = <<>>
    THEN 0
    ELSE countPassedTaskTests(SubSeq(tasks, 1, Len(tasks) - 1))
            + (IF tasks[Len(tasks)].type = "suite"
               THEN countPassedTaskTests(tasks[Len(tasks)].tasks)
               ELSE IF tasks[Len(tasks)].state = <<"pass">> THEN 1 ELSE 0)

\* Lines 95-97: files.reduce from 0 over countTaskTests(file.tasks).
RECURSIVE countTests(_)
countTests(files) ==
    IF files = <<>>
    THEN 0
    ELSE countTests(SubSeq(files, 1, Len(files) - 1))
            + countTaskTests(files[Len(files)].tasks)

\* Lines 99-101: files.reduce from 0 over countPassedTaskTests(file.tasks).
RECURSIVE countPassedTests(_)
countPassedTests(files) ==
    IF files = <<>>
    THEN 0
    ELSE countPassedTests(SubSeq(files, 1, Len(files) - 1))
            + countPassedTaskTests(files[Len(files)].tasks)

\* Lines 70-93: a suite is reported with its tasks, any other task with
\* `task.result?.state || 'pending'`. Names, durations and errors are copied
\* from the task and are left out here.
RECURSIVE collectTaskResults(_)
collectTaskResults(tasks) ==
    [i \in DOMAIN tasks |->
        IF tasks[i].type = "suite"
        THEN [type |-> "suite", tests |-> collectTaskResults(tasks[i].tasks)]
        ELSE [type |-> "test",
              status |-> IF TruthyString(tasks[i].state)
                         THEN tasks[i].state[1]
                         ELSE "pending"]]

\* Lines 50-68.
collectResults(files) ==
    LET totalTests == countTests(files)
        passedTests == countPassedTests(files)
        failedTests == totalTests - passedTests
    IN  [summary |-> [total |-> totalTests,
                      passed |-> passedTests,
                      failed |-> failedTests,
                      success |-> failedTests = 0],
         testFiles |-> [i \in DOMAIN files |->
                          [name |-> files[i].name,
                           tests |-> collectTaskResults(files[i].tasks)]]]

\* yaml.dump of a boolean.
DumpBoolean(b) == IF b THEN "true" ELSE "false"

\* Lines 37-41: yaml.dump with indent 2; the lines of the summary mapping,
\* which come first in the document.
dump(report) ==
    <<"summary:",
      "  total: " \o toString(report.summary.total),
      "  passed: " \o toString(report.summary.passed),
      "  failed: " \o toString(report.summary.failed),
      "  success: " \o DumpBoolean(report.summary.success)>>

\* The states Vitest gives a task's result, and no result at all.
TaskStates == {Absent, <<"pass">>, <<"fail">>, <<"skip">>}

\* Task lists of nested suites: empty, of tests, and with a suite inside.
NestedTasks ==
    {<<>>,
     <<Test(<<"pass">>)>>,
     <<Test(<<"skip">>), Test(Absent)>>,
     <<Suite(<<Test(<<"pass">>), Test(<<"fail">>)>>), Test(<<"pass">>)>>}

\* The tasks of a file: tests in every state and suites.
Tasks == {Test(state) : state \in TaskStates} \cup
         {Suite(tasks) : tasks \in NestedTasks}

TaskLists == UNION {[1 .. n -> Tasks] : n \in 0 .. MaxTasks}

\* The `files` onFinished receives: none (also the default of the parameter),
\* one file, or a file followed by one of two others.
ReportedFiles ==
    {<<>>} \cup
    {<<[name |-> "checkout.test.ts", tasks |-> tasks]>> :
        tasks \in TaskLists} \cup
    {<<[name |-> "checkout.test.ts", tasks |-> tasks],
       [name |-> "happy-path.test.ts", tasks |-> more]>> :
        tasks \in TaskLists,
        more \in {<<>>, <<Suite(<<Test(<<"pass">>)>>)>>}}

\* A run of the reporter: the files of the run and VITEST_OUTPUT_FILE.
YamlInputs ==
    [files : ReportedFiles, env : {Absent, <<"results/report.yaml">>}]

\* The reporter when Vitest has constructed it.
NewReporter ==
    [pc |-> "onInit", outputFile |-> Absent, report |-> Absent,
     written |-> Absent]

InitYaml ==
    /\ Constructed
    /\ input \in YamlInputs
    /\ output = NewReporter

\* Lines 27-30: onInit of the YAML reporter.
YamlOnInit ==
    /\ output.pc = "onInit"
    /\ output' = [output EXCEPT !.pc = "onFinished",
                                !.outputFile = input.env]
    /\ UNCHANGED <<input, aggregatorVars>>

\* Lines 32-48: the results are collected and dumped; the document is
\* written where an output file is set.
OnFinished ==
    /\ output.pc = "onFinished"
    /\ LET collected == collectResults(input.files)
           yamlOutput == dump(collected)
       IN  output' = [output EXCEPT
                        !.pc = "done",
                        !.report = <<collected>>,
                        !.written = IF TruthyString(output.outputFile)
                                    THEN <<yamlOutput>>
                                    ELSE Absent]
    /\ UNCHANGED <<input, aggregatorVars>>

NextYaml == YamlOnInit \/ OnFinished

SpecYaml == InitYaml /\ [][NextYaml]_vars

\* ------------------------------------------------------------------ claims

\* The global counter of a terminal status.
Count(status) ==
    CASE status = "pass" -> passed
      [] status = "fail" -> failed
      [] status = "skip" -> skipped

\* The number of stored results with a status.
Stored(status) == Cardinality({i \in 1 .. Len(results) : results[i].status = status})

\* C1: when addResult records an outcome whose name is already stored with
\* terminal status old and the new outcome has another terminal status new,
\* the counter of old drops by exactly 1, the counter of new rises by exactly
\* 1, and the third counter, total and the number of stored results stay.
C1_Correction ==
    [][\A old \in Terminal, new \in Terminal :
         ( /\ call'.op = "addResult"
           /\ old # new
           /\ FindIndex(results, call'.result.name) > 0
           /\ results[FindIndex(results, call'.result.name)].status = old
           /\ call'.result.status = new )
         => /\ Count(old)' = Count(old) - 1
            /\ Count(new)' = Count(new) + 1
            /\ \A s \in Terminal \ {old, new} : Count(s)' = Count(s)
            /\ total' = total
            /\ Len(results') = Len(results)]_vars

\* C1 witness: "a" was recorded as pass and then as fail.
C1_Witness ==
    /\ recorded = [exact |-> TRUE,
                   outcomes |-> <<[name |-> "a", status |-> "pass"],
                                  [name |-> "a", status |-> "fail"]>>]
    /\ call.op = "addResult"
    /\ passed = 0
    /\ failed = 1
    /\ total = 0

\* C2: in every reachable state each of passed, failed, skipped is the number
\* of stored results with that status, so their sum is the number of stored
\* results that are not pending.
C2_CountersMatchResults ==
    /\ passed = Stored("pass")
    /\ failed = Stored("fail")
    /\ skipped = Stored("skip")
    /\ passed + failed + skipped = Len(results) - Stored("pending")

\* C2 witness: two tests are stored in one bucket, the first as pending and
\* the second as failed, and the first was re-recorded after the second (it
\* is behind it in the bucket).
C2_Witness ==
    /\ ~recorded.exact
    /\ Len(results) = 2
    /\ results[1].status = "pending"
    /\ results[2].status = "fail"
    /\ failed = 1
    /\ passed + skipped = 0
    /\ results[1].category = "Other"
    /\ results[2].category = "Other"
    /\ heap[categories["Other"]].tests[1].name = results[2].name

\* The run since the last reset recorded "a" as pass and then "a" as fail,
\* and nothing else.
PassThenFail ==
    /\ recorded.exact
    /\ Len(recorded.outcomes) = 2
    /\ recorded.outcomes[1].name = "a"
    /\ recorded.outcomes[1].status = "pass"
    /\ recorded.outcomes[2].name = "a"
    /\ recorded.outcomes[2].status = "fail"

\* C3 as stated: after a reset, recording {a, pass} and then {a, fail} leaves
\* total = 1, passed = 0, failed = 1.
C3_AsStated == PassThenFail => (total = 1 /\ passed = 0 /\ failed = 1)

\* C3 as amended: after a reset, recording {a, pass} and then {a, fail} leaves
\* passed = 0, failed = 1 and one stored result; total is the number of
\* onTestStart calls since the reset (1 when the test was started once, 0
\* when addResult alone was called).
C3_PassThenFail ==
    PassThenFail =>
        /\ passed = 0
        /\ failed = 1
        /\ skipped = 0
        /\ Len(results) = 1
        /\ total = started

\* C3 witness: the scenario with onTestStart called once.
C3_Witness == PassThenFail /\ started = 1 /\ total = 1 /\ failed = 1

\* C4 as stated: nothing read through a snapshot a caller keeps changes while
\* the caller keeps it, whatever is called on the manager.
C4_SnapshotIsCopy ==
    [][(held # <<>> /\ held' = held) => View(held[1])' = View(held[1])]_vars

\* The elements of a list.
Elems(list) == {list[i] : i \in 1 .. Len(list)}

\* The number of tests of a list with a status.
StatusCount(list, status) == Cardinality({i \in 1 .. Len(list) : list[i].status = status})

\* A CategoryStats b agrees with its own tests list.
BucketCounts(b) ==
    /\ b.total = Len(b.tests)
    /\ b.passed = StatusCount(b.tests, "pass")
    /\ b.failed = StatusCount(b.tests, "fail")
    /\ b.skipped = StatusCount(b.tests, "skip")

\* C5: every bucket's total is the length of its tests list and its passed,
\* failed, skipped are the numbers of tests of the list with that status; a
\* bucket holds exactly the stored results of its category, each once (the old
\* entry of a re-recorded name is gone from its bucket), and the outcome just
\* recorded is the last entry of its category's bucket.
C5_BucketsConsistent ==
    /\ \A c \in DOMAIN categories :
        LET b == heap[categories[c]]
        IN  /\ b.name = c
            /\ BucketCounts(b)
            /\ \A i, j \in 1 .. Len(b.tests) :
                    b.tests[i].name = b.tests[j].name => i = j
            /\ Elems(b.tests) = {r \in Elems(results) : r.category = c}
    /\ \A r \in Elems(results) : Truthy(r.category) => r.category \in DOMAIN categories
    /\ (call.op = "addResult" /\ Truthy(call.result.category)) =>
        LET b == heap[categories[call.result.category]]
        IN  b.tests[Len(b.tests)] = call.result

\* C5 witness: "a" was recorded in Other and re-recorded in custom, which
\* left the Other bucket empty.
C5_Witness ==
    /\ recorded = [exact |-> TRUE,
                   outcomes |-> <<[name |-> "a", status |-> "pass"],
                                  [name |-> "a", status |-> "fail"]>>]
    /\ DOMAIN categories = {"Other", "custom"}
    /\ heap[categories["Other"]].total = 0
    /\ heap[categories["Other"]].passed = 0
    /\ heap[categories["custom"]].failed = 1

\* C6: no global counter and no counter of a category bucket is negative.
C6_NoNegativeCounter ==
    /\ passed >= 0
    /\ failed >= 0
    /\ skipped >= 0
    /\ total >= 0
    /\ \A c \in DOMAIN categories :
        LET b == heap[categories[c]]
        IN  b.passed >= 0 /\ b.failed >= 0 /\ b.skipped >= 0 /\ b.total >= 0

\* C6 witness: a skipped test was re-recorded as pending in another bucket,
\* which took the counters of the first bucket back to 0.
C6_Witness ==
    /\ recorded = [exact |-> TRUE,
                   outcomes |-> <<[name |-> "b", status |-> "skip"],
                                  [name |-> "b", status |-> "pending"]>>]
    /\ skipped = 0
    /\ DOMAIN categories = {"Other", "custom"}
    /\ heap[categories["custom"]].skipped = 0
    /\ heap[categories["custom"]].total = 0
    /\ heap[categories["Other"]].total = 1

\* C7: a call of addResult emits exactly one notification, an 'update', whose
\* snapshot is the state with all of the call's changes applied: it holds the
\* outcome just recorded, once per name, its passed + failed + skipped is the
\* number of its results that are not pending, and its buckets agree with
\* their tests lists.
C7_UpdateAfterChanges ==
    call.op = "addResult" =>
        /\ Len(emitted) = 1
        /\ emitted[1].type = "update"
        /\ emitted[1].state = getState(Manager)
        /\ LET v == View(emitted[1].state)
           IN  /\ call.result \in Elems(v.results)
               /\ \A i, j \in 1 .. Len(v.results) :
                    v.results[i].name = v.results[j].name => i = j
               /\ v.passed = StatusCount(v.results, "pass")
               /\ v.failed = StatusCount(v.results, "fail")
               /\ v.skipped = StatusCount(v.results, "skip")
               /\ v.passed + v.failed + v.skipped
                    = Len(v.results) - StatusCount(v.results, "pending")
               /\ \A c \in DOMAIN v.categories : BucketCounts(v.categories[c])

\* C7 witness: the update of a correction from pass to skip.
C7_Witness ==
    /\ recorded = [exact |-> TRUE,
                   outcomes |-> <<[name |-> "b", status |-> "pass"],
                                  [name |-> "b", status |-> "skip"]>>]
    /\ Len(emitted) = 1
    /\ emitted[1].type = "update"
    /\ emitted[1].state.passed = 0
    /\ emitted[1].state.skipped = 1
    /\ DOMAIN categories = {"Other"}

\* The last call was addResult with an outcome whose category is absent or is
\* not one of the fixed category set.
UnknownCategoryRecorded ==
    /\ call.op = "addResult"
    /\ call.result.category \notin TestCategory

C9_Reset ==
    /\ call.op = "reset" =>
        /\ results = <<>>
        /\ categories = EmptyMap
        /\ passed = 0
        /\ failed = 0
        /\ skipped = 0
        /\ total = 0
        /\ isComplete = FALSE
    /\ total = started
    /\ recorded.exact =>
        /\ \A r \in Elems(results) :
            [name |-> r.name, status |-> r.status] \in Elems(recorded.outcomes)
        /\ passed + failed + skipped <= Len(recorded.outcomes)
        /\ \A c \in DOMAIN categories :
            \A t \in Elems(heap[categories[c]].tests) :
                [name |-> t.name, status |-> t.status] \in Elems(recorded.outcomes)

\* C9 witness: reset was called with two results stored.
C9_Witness ==
    /\ call.op = "reset"
    /\ call.cleared = 2
    /\ results = <<>>

\* C10: onComplete sets isComplete and emits exactly one notification, a
\* 'complete' whose snapshot has isComplete = TRUE and the results and
\* counters the manager had when it was called; isComplete is false after
\* reset and stays false until onComplete, and once true stays true until
\* reset; every change of the stored results is announced by an 'update'
\* carrying them in the call that makes it, so the updates of all recorded
\* outcomes precede a later 'complete'.
C10_Complete ==
    /\ [](call.op = "onComplete" =>
            /\ isComplete
            /\ emitted = <<[type |-> "complete", state |-> getState(Manager)]>>
            /\ emitted[1].state.isComplete)
    /\ [][call'.op = "onComplete" =>
            /\ emitted'[1].state.results = results
            /\ emitted'[1].state.categories = categories
            /\ emitted'[1].state.passed = passed
            /\ emitted'[1].state.failed = failed
            /\ emitted'[1].state.skipped = skipped
            /\ emitted'[1].state.total = total]_vars
    /\ [](call.op \in {"new", "reset"} => ~isComplete)
    /\ [][(~isComplete /\ call'.op # "onComplete") => ~isComplete']_vars
    /\ [][(isComplete /\ call'.op # "reset") => isComplete']_vars
    /\ [][results' # results =>
            \/ call'.op = "reset"
            \/ /\ call'.op = "addResult"
               /\ \E i \in 1 .. Len(emitted') :
                    /\ emitted'[i].type = "update"
                    /\ emitted'[i].state.results = results']_vars

\* C10 witness: onComplete was called with two results stored, one passed.
C10_Witness ==
    /\ call.op = "onComplete"
    /\ Len(results) = 2
    /\ passed = 1
    /\ Len(emitted) = 1
    /\ emitted[1].type = "complete"
    /\ emitted[1].state.isComplete

\* The outcomes stored under a test name.
StoredOutcomes(name) == {i \in 1 .. Len(results) : results[i].name = name}

\* C11: for each test, onTestCaseReady stores one outcome with status pending
\* and onTestCaseResult replaces it with one outcome whose status is terminal;
\* after onTestCaseResult the stored outcome of the test is never pending,
\* whatever state the runner reports.
C11_AsStated ==
    \A testCase \in TestCases :
        /\ phase[testCase] # "idle" =>
                Cardinality(StoredOutcomes(testCase.name)) = 1
        /\ phase[testCase] = "ready" =>
                \A i \in StoredOutcomes(testCase.name) :
                    results[i].status = "pending"
        /\ phase[testCase] = "done" =>
                \A i \in StoredOutcomes(testCase.name) :
                    results[i].status \in Terminal

\* The exchange the checker was applied to, as the tuple (method, path,
\* status code, body) of an observed exchange; it is well-formed when it has
\* a method, a path and a status code.
WellFormed ==
    /\ input.received.req # Absent
    /\ TruthyString(input.received.req[1].method)
    /\ TruthyString(input.received.req[1].path)
    /\ \/ input.received.status \notin {Absent, <<0>>}
       \/ input.received.statusCode # Absent

ExchangeMethod == input.received.req[1].method[1]

ExchangePath == input.received.req[1].path[1]

ExchangeStatus ==
    IF input.received.status \notin {Absent, <<0>>}
    THEN input.received.status[1]
    ELSE input.received.statusCode[1]

\* The methods of the exchanges in lower and in upper case, and the decimal
\* writing of their status codes.
LowerCased == ("POST" :> "post") @@ ("post" :> "post") @@ ("GET" :> "get")
                @@ ("DELETE" :> "delete")

UpperCased == ("POST" :> "POST") @@ ("post" :> "POST") @@ ("GET" :> "GET")
                @@ ("DELETE" :> "DELETE")

Written == (0 :> "0") @@ (200 :> "200") @@ (201 :> "201") @@ (405 :> "405")
                @@ (418 :> "418")

\* What the interface description defines for the exchange.
PathDefined == ExchangePath \in DOMAIN schema.paths

MethodDefined ==
    PathDefined /\ LowerCased[ExchangeMethod] \in DOMAIN schema.paths[ExchangePath]

ExchangeResponses ==
    schema.paths[ExchangePath][LowerCased[ExchangeMethod]].responses

DefinedStatuses ==
    {ExchangeResponses[i].key : i \in DOMAIN ExchangeResponses}

StatusDefined == MethodDefined /\ Written[ExchangeStatus] \in DefinedStatuses

\* The required properties of the JSON schema of the exchange's status: a
\* set of one set, or empty when the response has no application/json schema.
ExchangeSchema ==
    {ExchangeResponses[i].value.content[1].schema[1].required :
        i \in {k \in DOMAIN ExchangeResponses :
                    /\ ExchangeResponses[k].key = Written[ExchangeStatus]
                    /\ ExchangeResponses[k].value.content # <<>>}}

BodyViolates ==
    \E required \in ExchangeSchema :
        \/ input.received.body = Absent
        \/ ~(required \subseteq input.received.body[1])

Failed(result, diagnostic) ==
    ~result.threw /\ ~result.pass /\ StartsWith(result.message, diagnostic)

\* C12: the checker checks path, then method, then status, then body schema
\* and fails with the diagnostic of the first check that fails; it passes in
\* every other case, including a defined status without JSON schema, whatever
\* the body.
C12_FirstFailingCheck ==
    (output # <<>> /\ WellFormed) =>
        IF ~PathDefined
        THEN Failed(output[1], "Path " \o ExchangePath \o " not found")
        ELSE IF ~MethodDefined
        THEN Failed(output[1], "Method " \o UpperCased[ExchangeMethod]
                                \o " not defined for path " \o ExchangePath)
        ELSE IF ~StatusDefined
        THEN Failed(output[1], "Status " \o Written[ExchangeStatus]
                                \o " not defined")
        ELSE IF BodyViolates
        THEN Failed(output[1], "Response body does not match schema")
        ELSE ~output[1].threw /\ output[1].pass

\* The checker has passed an exchange whose status is defined without a JSON
\* schema and whose body has no property at all.
C12_Witness ==
    /\ output # <<>>
    /\ WellFormed
    /\ StatusDefined
    /\ ExchangeSchema = {}
    /\ input.received.body = <<{}>>
    /\ output[1].pass

\* The part of a message that follows the first occurrence of a marker.
After(message, marker) ==
    LET at == {i \in 1 .. (Len(message) - Len(marker) + 1) :
                    SubSeq(message, i, i + Len(marker) - 1) = marker}
        first == CHOOSE i \in at : \A j \in at : i <= j
    IN  SubSeq(message, first + Len(marker), Len(message))

\* The entries of a list written with ', ' between them.
RECURSIVE Listed(_)
Listed(list) ==
    LET at == {i \in 1 .. (Len(list) - 1) : SubSeq(list, i, i + 1) = ", "}
        first == CHOOSE i \in at : \A j \in at : i <= j
    IN  IF Len(list) = 0 THEN {}
        ELSE IF at = {} THEN {list}
        ELSE {SubSeq(list, 1, first - 1)}
                \cup Listed(SubSeq(list, first + 2, Len(list)))

\* C13: when path and method are defined but the status code is not among the
\* operation's responses, the checker fails with a 'status not defined'
\* diagnostic that names the observed status and lists exactly the status
\* codes defined for the operation, and the body is not validated.
C13_StatusNotDefined ==
    (output # <<>> /\ WellFormed /\ MethodDefined /\ ~StatusDefined) =>
        /\ Failed(output[1],
                  "Status " \o Written[ExchangeStatus] \o " not defined for "
                    \o UpperCased[ExchangeMethod] \o " " \o ExchangePath
                    \o ". Valid statuses: ")
        /\ Listed(After(output[1].message, "Valid statuses: ")) = DefinedStatuses
        /\ ~output[1].validated
        /\ output[1].errors = {}
        /\ (/\ ExchangeMethod = "POST"
            /\ ExchangePath = "/checkout_sessions"
            /\ ExchangeStatus = 418) =>
                output[1].message =
                    "Status 418 not defined for POST /checkout_sessions. Valid statuses: 201, 400, default"

\* The checker has failed POST /checkout_sessions with status 418 and a body
\* that the schema of 201 would reject.
C13_Witness ==
    /\ output # <<>>
    /\ input.received.req = <<[method |-> <<"POST">>,
                               path |-> <<"/checkout_sessions">>]>>
    /\ input.received.status = <<418>>
    /\ input.received.body = <<{}>>
    /\ ~output[1].pass
    /\ ~output[1].threw

\* C14: the request path is resolved by exact string equality with a path key:
\* /checkout_sessions/cs_123 does not match a templated key and fails with
\* 'path not found' for every method, status and body; a missing path, method
\* or status is never reported as a pass.
C14_ExactPath ==
    output # <<>> =>
        /\ (WellFormed /\ ExchangePath \notin DOMAIN schema.paths) =>
                /\ ~output[1].threw
                /\ ~output[1].pass
                /\ output[1].message =
                        "Path " \o ExchangePath \o " not found in OpenAPI spec"
        /\ (WellFormed /\ ExchangePath = "/checkout_sessions/cs_123") =>
                /\ ~output[1].pass
                /\ output[1].message =
                        "Path /checkout_sessions/cs_123 not found in OpenAPI spec"
        /\ output[1].pass => (WellFormed /\ StatusDefined)

\* The checker has failed POST /checkout_sessions/cs_123 with status 201 and
\* a body that has every required property.
C14_Witness ==
    /\ output # <<>>
    /\ input.received.req = <<[method |-> <<"POST">>,
                               path |-> <<"/checkout_sessions/cs_123">>]>>
    /\ input.received.status = <<201>>
    /\ input.received.body = <<{"id", "status"}>>
    /\ ~output[1].pass

\* C15: for every observed exchange, including one with no request
\* information, no method, no path or no status code, the checker returns a
\* pass/fail result carrying a diagnostic and never raises an exception.
C15_AsStated ==
    output # <<>> =>
        /\ ~output[1].threw
        /\ output[1].pass \in BOOLEAN
        /\ output[1].message # ""

\* The rules in the order of the claim, and the condition of each.
RuleOrder ==
    <<"Session Creation & Address Handling", "Shipping Option Updates",
      "Order Completion", "Error Scenarios", "Idempotency",
      "Schema Validation", "Totals Validation", "Cancel Operations",
      "Get Operations", "Happy Path Flows">>

RuleMatches(category, name, suite) ==
    CASE category = "Session Creation & Address Handling" ->
            SessionCreationRule(name, suite)
      [] category = "Shipping Option Updates" -> ShippingOptionRule(name, suite)
      [] category = "Order Completion" -> OrderCompletionRule(name, suite)
      [] category = "Error Scenarios" -> ErrorScenariosRule(name, suite)
      [] category = "Idempotency" -> IdempotencyRule(name, suite)
      [] category = "Schema Validation" -> SchemaValidationRule(name, suite)
      [] category = "Totals Validation" -> TotalsValidationRule(name, suite)
      [] category = "Cancel Operations" -> CancelOperationsRule(name, suite)
      [] category = "Get Operations" -> GetOperationsRule(name, suite)
      [] category = "Happy Path Flows" -> HappyPathRule(name, suite)

\* The positions in RuleOrder of the rules the arguments match.
MatchingRules ==
    {i \in DOMAIN RuleOrder :
        RuleMatches(RuleOrder[i], input.lowerName, input.lowerSuite)}

\* C16: categorizeTest is a total deterministic function: for every test name
\* and suite name (an absent suite and empty strings included) it returns one
\* of the eleven fixed categories, the same one on every call with the same
\* arguments, and it returns Other exactly when no keyword rule matches.
C16_TotalDeterministic ==
    \A i \in DOMAIN output :
        /\ output[i] \in TestCategory
        /\ Cardinality(TestCategory) = 11
        /\ output[i] = output[1]
        /\ output[i] = "Other" <=> MatchingRules = {}

\* categorizeTest has been called twice on the empty name without a suite.
C16_Witness ==
    /\ Len(output) = 2
    /\ input.name = ""
    /\ input.suite = Undefined
    /\ output[2] = "Other"

\* C17: the rules are evaluated against the lower-cased name and suite in the
\* fixed order, and the category of the first rule that matches is returned:
\* a name matching several rules gets the earliest one (a name containing both
\* 'complete' and 'error' and matching no earlier rule is Order Completion),
\* whatever the letter case of the arguments.
C17_FirstRuleWins ==
    \A i \in DOMAIN output :
        /\ MatchingRules # {} =>
                output[i] = RuleOrder[CHOOSE r \in MatchingRules :
                                        \A q \in MatchingRules : r <= q]
        /\ (/\ includes(input.lowerName, "complete")
            /\ includes(input.lowerName, "error")
            /\ ~SessionCreationRule(input.lowerName, input.lowerSuite)
            /\ ~ShippingOptionRule(input.lowerName, input.lowerSuite)) =>
                output[i] = "Order Completion"

\* categorizeTest has been called on a name written in upper case that matches
\* the Order Completion and the Error Scenarios rule, in a suite that matches
\* the Error Scenarios rule.
C17_Witness ==
    /\ Len(output) > 0
    /\ input.name = "ERRORCOMPLETE"
    /\ input.suite = "Error Handling"
    /\ MatchingRules = {3, 4}
    /\ output[1] = "Order Completion"

\* The amount of the first entry of a type in the totals array under test, 0
\* when no entry of the type exists.
Term(type) ==
    LET at == {i \in DOMAIN input : input[i].type = type}
    IN  IF at = {}
        THEN 0
        ELSE input[CHOOSE i \in at : \A j \in at : i <= j].amount

FormulaHolds ==
    Term("total") = Term("subtotal") - Term("discount") + Term("fulfillment")
                        + Term("tax") + Term("fee")

\* The totals of the README's example with a given total.
ExampleTotals(total_) ==
    <<[type |-> "items_base_amount", amount |-> 1100],
      [type |-> "items_discount", amount |-> 0],
      [type |-> "subtotal", amount |-> 1100],
      [type |-> "discount", amount |-> 0],
      [type |-> "fulfillment", amount |-> 0],
      [type |-> "tax", amount |-> 110],
      [type |-> "total", amount |-> total_]>>

\* C18: validateTotalFormula passes exactly when total == subtotal - discount
\* + fulfillment + tax + fee, each term being the amount of the entry of that
\* type and 0 when there is none; the example with total 1210 passes, and with
\* total 1200 it fails reporting expected 1210 and actual 1200.
C18_TotalFormula ==
    \A i \in DOMAIN output :
        output[i].fn = "validateTotalFormula" =>
            /\ output[i].result.pass <=> FormulaHolds
            /\ input = ExampleTotals(1210) => output[i].result.pass
            /\ input = ExampleTotals(1200) =>
                    /\ ~output[i].result.pass
                    /\ output[i].result.expected = <<1210>>
                    /\ output[i].result.actual = <<1200>>

\* validateTotalFormula has failed the example with total 1200.
C18_Witness ==
    /\ input = ExampleTotals(1200)
    /\ \E i \in DOMAIN output :
            /\ output[i].fn = "validateTotalFormula"
            /\ ~output[i].result.pass

\* The types that appear in the totals array under test.
TypesPresent == {input[i].type : i \in DOMAIN input}

SevenTypes ==
    {"items_base_amount", "items_discount", "subtotal", "discount",
     "fulfillment", "tax", "total"}

\* C19: validateRequiredTotalTypes passes exactly when each of the seven types
\* appears at least once; an entry with amount 0 counts as present, a fee
\* entry is not required, and the absence of any one of the seven types fails
\* the check even when the total formula check passes.
C19_RequiredTypes ==
    \A i \in DOMAIN output :
        output[i].fn = "validateRequiredTotalTypes" =>
            /\ output[i].result.pass <=> SevenTypes \subseteq TypesPresent
            /\ (\E type \in SevenTypes : type \notin TypesPresent) =>
                    /\ ~output[i].result.pass
                    /\ output[i].result.expected[1] \in SevenTypes \ TypesPresent

\* Both checks have run on totals that lack only the discount entry, have no
\* fee entry and entries with amount 0: the formula check has passed and the
\* required-types check has failed.
C19_Witness ==
    /\ SevenTypes \ TypesPresent = {"discount"}
    /\ \E i \in DOMAIN input : input[i].amount = 0
    /\ \E i, j \in DOMAIN output :
            /\ output[i].fn = "validateTotalFormula"
            /\ output[i].result.pass
            /\ output[j].fn = "validateRequiredTotalTypes"
            /\ ~output[j].result.pass

\* The line items of the response under test, and those that violate one of
\* the two identities.
LineItems == input.response.body.line_items

Violating ==
    {i \in DOMAIN LineItems :
        \/ LineItems[i].subtotal # LineItems[i].base_amount - LineItems[i].discount
        \/ LineItems[i].total # LineItems[i].subtotal + LineItems[i].tax}

\* Every other assertion of the test that ran holds of the response.
OtherAssertionsHold(test) ==
    CASE test = "create" ->
            /\ input.response.status = 201
            /\ \A i \in DOMAIN LineItems :
                    LineItems[i].id # Absent /\ LineItems[i].discount >= 0
      [] test = "get" ->
            /\ input.response.status = 200
            /\ \A i \in DOMAIN LineItems :
                    LineItems[i].id # Absent /\ LineItems[i].discount >= 0
      [] test = "complete" ->
            /\ input.response.status = 200
            /\ Len(LineItems) = input.created

\* C20: for every line item of every create, get and complete response the
\* harness asserts subtotal == base_amount - discount and total == subtotal +
\* tax, whatever the session-level totals: a response in which any line item
\* violates either identity fails the test, and a response in which all line
\* items satisfy both passes these assertions.
C20_LineItemArithmetic ==
    \A r \in DOMAIN output :
        /\ Violating # {} => ~output[r].result.pass
        /\ Violating = {} => output[r].result.failed \notin {"subtotal", "total"}
        /\ OtherAssertionsHold(output[r].test) =>
                /\ output[r].result.pass <=> Violating = {}
                /\ Violating # {} =>
                        /\ output[r].result.failed \in {"subtotal", "total"}
                        /\ output[r].result.at \in Violating

\* The complete test has failed a response of two line items of which only
\* the second violates an identity, total == subtotal + tax.
C20_Witness ==
    /\ output # <<>>
    /\ output[1].test = "complete"
    /\ Len(LineItems) = 2
    /\ Violating = {2}
    /\ LineItems[2].subtotal = LineItems[2].base_amount - LineItems[2].discount
    /\ output[1].result = TestFailed("total", 2)

\* A response that carries a session: the target accepted the call.
Accepted(exchange) == exchange.status \in {200, 201}

\* The exchange observed a session in a terminal status.
ObservedTerminal(exchange) ==
    /\ Accepted(exchange)
    /\ exchange.sessionStatus \in {<<"completed">>, <<"canceled">>}

\* The helpers that change a session.
Mutating == {"updateSession", "completeSession", "cancelSession"}

\* C21 (as stated): in a test that passes, every update, complete or cancel
\* sent after a response that showed the session completed or canceled was
\* answered with an error status.
C21_AsStated ==
    output.verdict = "passed" =>
        \A i \in DOMAIN output.trace : \A j \in DOMAIN output.trace :
            (/\ i < j
             /\ ObservedTerminal(output.trace[i])
             /\ output.trace[j].helper \in Mutating)
            => output.trace[j].status >= 400

\* C21: the harness asserts rejection in three tests only. A test that
\* passes has seen the repeated complete (sent with a fresh Idempotency-Key
\* after a completion answered 200) answered 400 or 409, and the cancel of a
\* canceled or of a completed session answered 400, 405 or 409; the
\* idempotency test passes only when the complete repeated with the same
\* Idempotency-Key on the completed session is accepted with 200 and status
\* completed. No test sends an update after a complete or a cancel, nor a
\* complete after a cancel.
C21_RejectionTests ==
    /\ \A i \in DOMAIN output.trace : \A j \in DOMAIN output.trace :
          i < j =>
              /\ output.trace[i].helper \in {"completeSession", "cancelSession"}
                    => output.trace[j].helper # "updateSession"
              /\ output.trace[i].helper = "cancelSession"
                    => output.trace[j].helper # "completeSession"
    /\ output.verdict = "passed" =>
        /\ input.test = "double completion" =>
              /\ output.trace[2].status = 200
              /\ output.trace[3].helper = "completeSession"
              /\ output.trace[3].key # output.trace[2].key
              /\ output.trace[3].status \in {400, 409}
        /\ input.test = "cancel canceled" =>
              /\ ObservedTerminal(output.trace[2])
              /\ output.trace[3].helper = "cancelSession"
              /\ output.trace[3].status \in {400, 405, 409}
        /\ input.test = "cancel completed" =>
              /\ ObservedTerminal(output.trace[2])
              /\ output.trace[3].helper = "cancelSession"
              /\ output.trace[3].status \in {400, 405, 409}
        /\ input.test = "idempotent complete" =>
              /\ ObservedTerminal(output.trace[2])
              /\ output.trace[3].helper = "completeSession"
              /\ output.trace[3].key = output.trace[2].key
              /\ output.trace[3].status = 200
              /\ output.trace[3].sessionStatus = <<"completed">>

\* A double completion test has passed on a rejection with 409.
C21_Witness ==
    /\ input.test = "double completion"
    /\ output.verdict = "passed"
    /\ output.trace[3].status = 409

\* A create request that carries items only.
ItemsOnly(exchange) ==
    /\ exchange.helper = "createSession"
    /\ exchange.body.buyer = Absent
    /\ exchange.body.fulfillment_address = Absent

\* The statuses a session can be paid or canceled from.
Open == {<<"not_ready_for_payment">>, <<"ready_for_payment">>}

\* The accepted responses of a trace follow the legal transitions: an
\* items-only create shows not_ready_for_payment, a create or update shows an
\* open status, a complete shows completed and a cancel canceled, both only
\* after open statuses.
LegalTransitions(trace) ==
    \A j \in DOMAIN trace :
        Accepted(trace[j]) =>
            /\ ItemsOnly(trace[j]) =>
                  trace[j].sessionStatus = <<"not_ready_for_payment">>
            /\ trace[j].helper \in {"createSession", "updateSession"} =>
                  trace[j].sessionStatus \in Open
            /\ trace[j].helper = "completeSession" =>
                  trace[j].sessionStatus = <<"completed">>
            /\ trace[j].helper = "cancelSession" =>
                  trace[j].sessionStatus = <<"canceled">>
            /\ trace[j].helper \in {"completeSession", "cancelSession"} =>
                  \A i \in 1 .. (j - 1) :
                      Accepted(trace[i]) => trace[i].sessionStatus \in Open

SameKey(first, second) ==
    /\ output.trace[first].key # Absent
    /\ output.trace[first].key = output.trace[second].key

CustomHeaders(j) == OrNoHeaders(Calls(input, output)[j].customHeaders)

\* C26 (as stated): a create request carries an Idempotency-Key header only
\* when the caller's custom headers supply one, and then with the caller's
\* value; with custom headers that omit it the request is sent without the
\* header.
C26_AsStated ==
    \A j \in DOMAIN output.trace :
        output.trace[j].helper = "createSession" =>
            IF "Idempotency-Key" \in DOMAIN CustomHeaders(j)
            THEN output.trace[j].key = <<CustomHeaders(j)["Idempotency-Key"]>>
            ELSE output.trace[j].key = Absent

\* C24 (as stated): a validated error message whose param is present and
\* does not start with '$' fails the check, and a validated message passes
\* only with content_type plain or markdown and non-empty content.
C24_AsStated ==
    \A i \in DOMAIN output :
        output[i].validated # Absent =>
            LET message == output[i].validated[1]
            IN  /\ output[i].pass =>
                      /\ message.content_type \in {<<"plain">>, <<"markdown">>}
                      /\ message.content \notin {Absent, <<"">>}
                /\ (message.param # Absent /\ ~StartsWith(message.param[1], "$"))
                      => ~output[i].pass

\* The run ended because the --config path gave no config.
ConfigMissing ==
    /\ output.pc = "exited"
    /\ input.config # Absent
    /\ output.config = Absent

\* C25 (as stated): runCommand exits with 0 exactly when the test run
\* finished with zero failed tests and with a non-zero code otherwise; with a
\* --config path and no config it reports the error once and exits with 1
\* before a test is started and without prompting; when the runner does not
\* start or throws it exits with 1.
C25_AsStated ==
    output.pc = "exited" =>
        /\ output.exitCode = <<0>> <=>
              (output.closed /\ output.failedTests = <<0>>)
        /\ output.exitCode # <<0>> => output.exitCode = <<1>>
        /\ ConfigMissing =>
              /\ output.errors = 1
              /\ output.exitCode = <<1>>
              /\ output.vitest = "none"
              /\ output.prompts = 0
        /\ output.vitest = "none" => output.exitCode = <<1>>

\* The test cases the runner has announced since the run began.
Announced == {testCase \in TestCases : phase[testCase] # "idle"}

\* C27: stored results have pairwise distinct names, so there are as many of
\* them as distinct names announced, while total counts the onTestCaseReady
\* calls; total >= passed + failed + skipped, and after every announced test
\* case has finished the two are equal only if the announced names are
\* pairwise distinct. An emission for a stored name, from whichever test case,
\* keeps every stored result at its index and writes the new status there.
C27_IdentityByName ==
    /\ [](/\ \A i \in DOMAIN results : \A j \in DOMAIN results :
                results[i].name = results[j].name => i = j
          /\ Len(results) = Cardinality({testCase.name : testCase \in Announced})
          /\ total = Cardinality(Announced)
          /\ total >= passed + failed + skipped
          /\ (/\ \A testCase \in Announced : phase[testCase] = "done"
              /\ total = passed + failed + skipped)
                => \A s \in Announced : \A t \in Announced :
                       s.name = t.name => s = t)
    /\ [][call'.op \in {"onTestCaseReady", "onTestCaseResult"} =>
            /\ Len(results') >= Len(results)
            /\ \A i \in DOMAIN results : results'[i].name = results[i].name
            /\ \A i \in DOMAIN results :
                  results[i].name # call'.name => results'[i] = results[i]
            /\ \A i \in DOMAIN results' :
                  results'[i].name = call'.name =>
                      results'[i].status =
                          IF call'.op = "onTestCaseReady" THEN "pending"
                          ELSE mapStatus(call'.state)]_vars

\* Both test cases named 'returns 404' have finished: one stored result, two
\* counted tests.
C27_Witness ==
    /\ \A testCase \in TestCases :
          testCase.name = "returns 404" => phase[testCase] = "done"
    /\ Len(results) = 1
    /\ total = 2
    /\ passed + failed + skipped = 1

\* The counter of a terminal status in a category bucket.
BucketCount(b, status) ==
    CASE status = "pass" -> b.passed
      [] status = "fail" -> b.failed
      [] status = "skip" -> b.skipped

\* The sum of a counter over the buckets of a set of keys.
RECURSIVE BucketSum(_, _)
BucketSum(keys, status) ==
    IF keys = {}
    THEN 0
    ELSE LET c == CHOOSE k \in keys : TRUE
         IN  BucketCount(heap[categories[c]], status)
                + BucketSum(keys \ {c}, status)

\* The places of a test name in the tests lists of the buckets.
Places(name) ==
    {<<c, k>> \in (DOMAIN categories) \X (1 .. Len(results)) :
        /\ k <= Len(heap[categories[c]].tests)
        /\ heap[categories[c]].tests[k].name = name}

\* Every stored result carries a category.
AllCategorized == \A i \in DOMAIN results : Truthy(results[i].category)

\* C28: while every stored result carries a category, each stored result is
\* in the tests list of exactly one bucket, once, and the buckets' passed,
\* failed and skipped add up to the global counters; a correction that
\* changes the category of a stored result takes the test out of the old
\* bucket, which stays in the map with its total one lower (possibly 0), and
\* puts it into the new bucket.
C28_BucketsPartition ==
    /\ [](AllCategorized =>
            /\ \A i \in DOMAIN results :
                  /\ Cardinality(Places(results[i].name)) = 1
                  /\ \A p \in Places(results[i].name) :
                        /\ p[1] = results[i].category
                        /\ heap[categories[p[1]]].tests[p[2]] = results[i]
            /\ \A status \in Terminal :
                  BucketSum(DOMAIN categories, status) = Count(status))
    /\ [][( /\ call'.op = "addResult"
            /\ AllCategorized
            /\ FindIndex(results, call'.result.name) > 0
            /\ Truthy(call'.result.category)
            /\ results[FindIndex(results, call'.result.name)].category
                  # call'.result.category )
          => LET old == results[FindIndex(results, call'.result.name)].category
                 new == call'.result.category
             IN  /\ old \in DOMAIN categories'
                 /\ new \in DOMAIN categories'
                 /\ heap'[categories'[old]].total
                        = heap[categories[old]].total - 1
                 /\ \A k \in DOMAIN heap'[categories'[old]].tests :
                        heap'[categories'[old]].tests[k].name
                            # call'.result.name
                 /\ \E k \in DOMAIN heap'[categories'[new]].tests :
                        heap'[categories'[new]].tests[k] = call'.result]_vars

\* "b" passed in custom and was re-recorded as passed in Other: the custom
\* bucket is still in the map, with total 0.
C28_Witness ==
    /\ call.op = "addResult"
    /\ call.result = [name |-> "b", status |-> "pass", category |-> "Other"]
    /\ results = <<call.result>>
    /\ passed = 1
    /\ "custom" \in DOMAIN categories
    /\ heap[categories["custom"]].total = 0
    /\ heap[categories["Other"]].passed = 1

\* The categories of the first three rules.
FirstThree ==
    {"Session Creation & Address Handling", "Shipping Option Updates",
     "Order Completion"}

\* C29: a test whose suite path contains 'post /checkout_sessions' is
\* classified Session Creation & Address Handling, and a test whose name
\* contains 'complete' or 'payment' is classified as one of the first three
\* categories, whatever other rules its name and suite match.
C29_RuleShadowing ==
    \A i \in DOMAIN output :
        /\ includes(input.lowerSuite, "post /checkout_sessions") =>
              output[i] = "Session Creation & Address Handling"
        /\ (\/ includes(input.lowerName, "complete")
            \/ includes(input.lowerName, "payment")) =>
              output[i] \in FirstThree

\* A test named ' cancel' of the cancel endpoint suite, which matches the
\* Cancel Operations rule, has been classified as session creation.
C29_Witness ==
    /\ Len(output) > 0
    /\ input.name = " cancel"
    /\ input.suite =
          "POST /checkout_sessions/{id}/cancel > Cancel Session - Happy Path"
    /\ 8 \in MatchingRules
    /\ output[1] = "Session Creation & Address Handling"

\* The `task.result?.state` of the tests of a task list, nested suites
\* included, in order.
RECURSIVE StatesOf(_)
StatesOf(tasks) ==
    IF tasks = <<>>
    THEN <<>>
    ELSE (IF Head(tasks).type = "suite"
          THEN StatesOf(Head(tasks).tasks)
          ELSE <<Head(tasks).state>>) \o StatesOf(Tail(tasks))

\* The states of the tests of all files of the run.
RECURSIVE StatesOfFiles(_)
StatesOfFiles(files) ==
    IF files = <<>>
    THEN <<>>
    ELSE StatesOf(Head(files).tasks) \o StatesOfFiles(Tail(files))

\* C30: in the summary of the report, total is the number of tests, passed
\* the number of tests in state pass, failed every other test (failed, skipped
\* or without a result), total = passed + failed, and success is true exactly
\* when every test passed; the written document shows these numbers.
C30_Summary ==
    output.report # Absent =>
        LET summary == output.report[1].summary
            states == StatesOfFiles(input.files)
            Passing == {i \in DOMAIN states : states[i] = <<"pass">>}
        IN  /\ summary.total = summary.passed + summary.failed
            /\ summary.total = Len(states)
            /\ summary.passed = Cardinality(Passing)
            /\ summary.failed = Cardinality((DOMAIN states) \ Passing)
            /\ summary.success = (\A i \in DOMAIN states : states[i] = <<"pass">>)
            /\ output.written # Absent =>
                  /\ output.written[1][2] = "  total: " \o toString(Len(states))
                  /\ output.written[1][5] =
                        "  success: " \o (IF Passing = DOMAIN states
                                          THEN "true" ELSE "false")

\* A report has been written for a run whose tests are one passed test, one
\* skipped test and one test without a result inside a suite: two of three
\* are counted as failed.
C30_Witness ==
    /\ output.written # Absent
    /\ input.files =
          <<[name |-> "checkout.test.ts",
             tasks |-> <<Test(<<"pass">>),
                         Suite(<<Test(<<"skip">>), Test(Absent)>>)>>]>>
    /\ output.report[1].summary =
          [total |-> 3, passed |-> 1, failed |-> 2, success |-> FALSE]

====
